---- MODULE Spec2Model ----
(***************************************************************************)
(* Model of the eui layout and event-dispatch engine (src/src/ui.rs with   *)
(* matrix.rs, shape.rs and the predefined widgets).                        *)
(*                                                                         *)
(* f32 values are modelled as exact fractions <<n, d>> in lowest terms;    *)
(* d = 0 encodes the IEEE specials (<<1,0>> = +inf, <<-1,0>> = -inf,       *)
(* <<0,0>> = NaN).  Rounding of f32 arithmetic is not modelled.            *)
(***************************************************************************)
EXTENDS Integers, Sequences, FiniteSets, TLC

(* ------------------------------------------------------------------ *)
(* f32 arithmetic as exact fractions                                   *)
(* ------------------------------------------------------------------ *)

Abs(x) == IF x < 0 THEN -x ELSE x

Sgn(x) == IF x < 0 THEN -1 ELSE IF x > 0 THEN 1 ELSE 0

RECURSIVE Gcd(_, _)
Gcd(a, b) == IF b = 0 THEN a ELSE Gcd(b, a % b)

\* the fraction n/d in lowest terms with a positive denominator
Q(n, d) ==
    IF d = 1 THEN <<n, 1>>
    ELSE IF n = 0 /\ d > 0 THEN <<0, 1>>
    ELSE IF d = 0 THEN <<Sgn(n), 0>>
    ELSE LET g == Gcd(Abs(n), Abs(d))
             s == IF d < 0 THEN -1 ELSE 1
         IN  <<(s * n) \div g, (s * d) \div g>>

R(n) == <<n, 1>>

NaN == <<0, 0>>

RAdd(a, b) == Q(a[1] * b[2] + b[1] * a[2], a[2] * b[2])

RNeg(a) == <<-a[1], a[2]>>

RSub(a, b) == RAdd(a, RNeg(b))

RMul(a, b) == Q(a[1] * b[1], a[2] * b[2])

RDiv(a, b) == Q(a[1] * b[2], a[2] * b[1])

\* the f32 comparisons: every comparison with NaN is false
RLt(a, b) == a[1] * b[2] < b[1] * a[2]

RGt(a, b) == RLt(b, a)

RGe(a, b) == a # NaN /\ b # NaN /\ ~RLt(a, b)

REq(a, b) == a # NaN /\ b # NaN /\ a = b

RNe(a, b) == ~REq(a, b)

RSum3(a, b, c) == RAdd(RAdd(a, b), c)

(* ------------------------------------------------------------------ *)
(* matrix.rs: 3x3 matrices, column-major: m[c][r], indices from 1      *)
(* ------------------------------------------------------------------ *)

identity ==
    << <<R(1), R(0), R(0)>>,
       <<R(0), R(1), R(0)>>,
       <<R(0), R(0), R(1)>> >>

scale_wh(w, h) ==
    << <<w, R(0), R(0)>>,
       <<R(0), h, R(0)>>,
       <<R(0), R(0), R(1)>> >>

translate(x, y) ==
    << <<R(1), R(0), R(0)>>,
       <<R(0), R(1), R(0)>>,
       <<x, y, R(1)>> >>

\* impl ops::Mul for Matrix: result[c][r] = sum over k of me[k][r] * other[c][k]
MatMul(me, other) ==
    LET e(c, r) == RSum3(RMul(me[1][r], other[c][1]),
                         RMul(me[2][r], other[c][2]),
                         RMul(me[3][r], other[c][3]))
    IN  << <<e(1, 1), e(1, 2), e(1, 3)>>,
           <<e(2, 1), e(2, 2), e(2, 3)>>,
           <<e(3, 1), e(3, 2), e(3, 3)>> >>

\* impl ops::Mul<[f32; 3]> for Matrix
MatVec(me, other) ==
    LET e(r) == RSum3(RMul(me[1][r], other[1]),
                      RMul(me[2][r], other[2]),
                      RMul(me[3][r], other[3]))
    IN  <<e(1), e(2), e(3)>>

(* ------------------------------------------------------------------ *)
(* shape.rs                                                            *)
(* ------------------------------------------------------------------ *)

Image(matrix, name) == [tag |-> "Image", matrix |-> matrix, name |-> name]

Text(matrix, text) == [tag |-> "Text", matrix |-> matrix, name |-> text]

\* a faulty variant of apply_matrix: the product is taken in the other order
apply_matrix_reversed(shape, outer) ==
    [shape EXCEPT !.matrix = MatMul(shape.matrix, outer)]

apply_matrix(shape, outer) == [shape EXCEPT !.matrix = MatMul(outer, shape.matrix)]

\* the division by the homogeneous coordinate (shape.rs:38)
Divide(v) == <<RDiv(v[1], v[3]), RDiv(v[2], v[3])>>

\* a corner of the local unit square in viewport coordinates
Corner(matrix, x, y) == Divide(MatVec(matrix, <<R(x), R(y), R(1)>>))

\* (point - corner) . (next - corner) < 0.0
Outside(point, corner, next) ==
    RLt(RAdd(RMul(RSub(point[1], corner[1]), RSub(next[1], corner[1])),
             RMul(RSub(point[2], corner[2]), RSub(next[2], corner[2]))),
        R(0))

\* shape.rs:57-81
InsideQuad(point, top_left, top_right, bot_left, bot_right) ==
    /\ ~Outside(point, top_left, top_right)
    /\ ~Outside(point, top_right, bot_right)
    /\ ~Outside(point, bot_right, bot_left)
    /\ ~Outside(point, bot_left, top_left)

\* Shape::hit_test
hit_test(shape, point) ==
    InsideQuad(point, Corner(shape.matrix, -1, 1), Corner(shape.matrix, 1, 1),
               Corner(shape.matrix, -1, -1), Corner(shape.matrix, 1, -1))

RMax(a, b) == IF RLt(a, b) THEN b ELSE a

RMin(a, b) == IF RLt(b, a) THEN b ELSE a

BoxOf(tl, tr, bl, br) ==
    [t |-> RMax(RMax(tl[2], tr[2]), RMax(bl[2], br[2])),
     r |-> RMax(RMax(tl[1], tr[1]), RMax(bl[1], br[1])),
     b |-> RMin(RMin(tl[2], tr[2]), RMin(bl[2], br[2])),
     l |-> RMin(RMin(tl[1], tr[1]), RMin(bl[1], br[1]))]

\* the axis-aligned box (top, right, bottom, left) of the shape in the local
\* [-1,1] box of its widget
get_bounding_box(shape) ==
    BoxOf(Corner(shape.matrix, -1, 1), Corner(shape.matrix, 1, 1),
          Corner(shape.matrix, -1, -1), Corner(shape.matrix, 1, -1))

(* ------------------------------------------------------------------ *)
(* lib.rs / predefined: widgets.  `ws` maps a widget id to the state   *)
(* the application owns; a widget is referred to by its id (Arc).      *)
(* ------------------------------------------------------------------ *)

Center == [horizontal |-> "Center", vertical |-> "Center"]

None == <<>>

Some(x) == <<x>>

\* image.rs:39-48 and label.rs:43-52: the content is narrower than the box
FitHeight(f, alignment) ==
    MatMul(translate(R(0), CASE alignment.vertical = "Center" -> R(0)
                             [] alignment.vertical = "Top"    -> RSub(R(1), f)
                             [] alignment.vertical = "Bottom" -> RAdd(R(-1), f)),
           scale_wh(R(1), f))

\* image.rs:50-60 and label.rs:54-64
FitWidth(f, alignment) ==
    MatMul(translate(CASE alignment.horizontal = "Center" -> R(0)
                       [] alignment.horizontal = "Left"   -> RAdd(R(-1), f)
                       [] alignment.horizontal = "Right"  -> RSub(R(1), f),
                     R(0)),
           scale_wh(f, R(1)))

\* Image::build_layout and Label::build_layout share this placement: content of
\* ratio own_ratio inside a box of ratio height_per_width
FitMatrix(own_ratio, height_per_width, alignment) ==
    IF RGt(height_per_width, own_ratio)
    THEN FitHeight(RDiv(own_ratio, height_per_width), alignment)
    ELSE FitWidth(RDiv(height_per_width, own_ratio), alignment)

Shapes(shapes) == [tag |-> "Shapes", shapes |-> shapes]

ImageLayout(name, own_ratio, height_per_width, alignment) ==
    Shapes(<<Image(FitMatrix(own_ratio, height_per_width, alignment), name)>>)

\* Widget::build_layout of widget w (a record of ws)
build_layout(w, height_per_width, alignment) ==
    CASE w.kind = "Empty" -> Shapes(<<>>)
      [] w.kind = "Image" ->
            ImageLayout(w.name, w.height_per_width, height_per_width, alignment)
      [] w.kind = "ImageButton" ->
            IF w.hovered
            THEN ImageLayout(w.image_hovered, w.height_per_width, height_per_width, alignment)
            ELSE ImageLayout(w.image_normal, w.height_per_width, height_per_width, alignment)
      [] w.kind = "Label" ->
            Shapes(<<Text(FitMatrix(RDiv(R(1), R(Len(w.text))), height_per_width, alignment),
                          w.text)>>)
      [] w.kind = "Custom" -> w.layout

\* Widget::needs_rebuild: the answer and the widget afterwards (Label polls and clears)
widget_needs_rebuild(w) ==
    CASE w.kind = "Label"  -> [answer |-> w.needs_refresh,
                               w |-> [w EXCEPT !.needs_refresh = FALSE]]
      [] w.kind = "Custom" -> [answer |-> w.stale, w |-> w]
      [] OTHER             -> [answer |-> FALSE, w |-> w]

EventOutcome(refresh_layout, propagate_to_parent, events_for_parent) ==
    [refresh_layout |-> refresh_layout,
     propagate_to_parent |-> propagate_to_parent,
     events_for_parent |-> events_for_parent]

DefaultOutcome == EventOutcome(FALSE, TRUE, <<>>)

\* what a handle_event that panics gives in place of an outcome
Panic == [panic |-> TRUE]

\* a faulty variant of handle_event: the button asks for a refresh only when
\* its hovered flag changes
handle_event_refresh_on_change(w, event, child_num) ==
    CASE w.kind = "ImageButton" ->
            IF event = "MouseEnterEvent"
            THEN [outcome |-> EventOutcome(~w.hovered, TRUE, <<>>),
                  w |-> [w EXCEPT !.hovered = TRUE]]
            ELSE IF event = "MouseLeaveEvent"
            THEN [outcome |-> EventOutcome(w.hovered, TRUE, <<>>),
                  w |-> [w EXCEPT !.hovered = FALSE]]
            ELSE [outcome |-> DefaultOutcome, w |-> w]
      [] w.kind = "Custom" ->
            [outcome |-> w.handler[event], w |-> w]
      [] OTHER -> [outcome |-> DefaultOutcome, w |-> w]

\* Widget::handle_event: the outcome and the widget afterwards
handle_event(w, event, child_num) ==
    CASE w.kind = "ImageButton" ->
            IF event = "MouseEnterEvent"
            THEN [outcome |-> EventOutcome(TRUE, TRUE, <<>>),
                  w |-> [w EXCEPT !.hovered = TRUE]]
            ELSE IF event = "MouseLeaveEvent"
            THEN [outcome |-> EventOutcome(TRUE, TRUE, <<>>),
                  w |-> [w EXCEPT !.hovered = FALSE]]
            ELSE [outcome |-> DefaultOutcome, w |-> w]
      [] w.kind = "Custom" ->
            [outcome |-> w.handler[event], w |-> w]
      [] OTHER -> [outcome |-> DefaultOutcome, w |-> w]

(* ------------------------------------------------------------------ *)
(* ui.rs: Node::new and Node::with_layout                              *)
(* A node is a record [state, children, shapes, needs_rebuild,         *)
(* empty_top, empty_right, empty_bottom, empty_left]; children is a    *)
(* sequence of pairs <<matrix, node>>.                                 *)
(* ------------------------------------------------------------------ *)

\* a faulty variant of Node: the node is created dirty
NodeCreatedDirty(state, children, shapes, et, er, eb, el) ==
    [state |-> state, children |-> children, shapes |-> shapes,
     needs_rebuild |-> TRUE,
     empty_top |-> et, empty_right |-> er, empty_bottom |-> eb, empty_left |-> el]

Node(state, children, shapes, et, er, eb, el) ==
    [state |-> state, children |-> children, shapes |-> shapes,
     needs_rebuild |-> FALSE,
     empty_top |-> et, empty_right |-> er, empty_bottom |-> eb, empty_left |-> el]

RECURSIVE WeightSum(_)
WeightSum(children) ==
    IF children = <<>> THEN 0
    ELSE Head(children).weight + WeightSum(Tail(children))

\* ui.rs:192-196
MinEmpty(acc, t, r, b, l) ==
    [top    |-> IF RLt(t, acc.top) THEN t ELSE acc.top,
     right  |-> IF RLt(r, acc.right) THEN r ELSE acc.right,
     bottom |-> IF RLt(b, acc.bottom) THEN b ELSE acc.bottom,
     left   |-> IF RLt(l, acc.left) THEN l ELSE acc.left]

\* ui.rs:191-192
BoxEmpty(acc, bb) ==
    MinEmpty(acc, RSub(R(1), bb.t), RSub(R(1), bb.r), RAdd(bb.b, R(1)), RAdd(bb.l, R(1)))

\* ui.rs:185-199, the fold over the shapes of a terminal node
RECURSIVE ShapesEmpty(_, _)
ShapesEmpty(shapes, acc) ==
    IF shapes = <<>> THEN acc
    ELSE ShapesEmpty(Tail(shapes), BoxEmpty(acc, get_bounding_box(Head(shapes))))

\* empty_left + empty_right - padding_left - padding_right
EmptyX(child, node) ==
    RSub(RSub(RAdd(node.empty_left, node.empty_right), child.padding_left),
         child.padding_right)

\* empty_top + empty_bottom - padding_top - padding_bottom
EmptyY(child, node) ==
    RSub(RSub(RAdd(node.empty_top, node.empty_bottom), child.padding_top),
         child.padding_bottom)

Half == Q(1, 2)

\* ui.rs:243-251 and 351-359
FlowPercent(child, node, vertical, weight_sum_inverse) ==
    RMul(RMul(RMul(R(child.weight), weight_sum_inverse), Half),
         RSub(R(2), IF child.collapse
                    THEN IF vertical THEN EmptyY(child, node) ELSE EmptyX(child, node)
                    ELSE R(0)))

\* ui.rs:253-257, 276-280, 330-334
EffectivePerpPercentage(child, node, vertical) ==
    RMul(Half, RSub(R(2), IF vertical THEN EmptyX(child, node) ELSE EmptyY(child, node)))

\* ui.rs:242-260, the sum of flow_percent / perp_percent
RECURSIVE PerpSum(_, _, _, _)
PerpSum(children, nodes, vertical, weight_sum_inverse) ==
    IF children = <<>> THEN R(0)
    ELSE RAdd(RDiv(FlowPercent(Head(children), Head(nodes), vertical, weight_sum_inverse),
                   EffectivePerpPercentage(Head(children), Head(nodes), vertical)),
              PerpSum(Tail(children), Tail(nodes), vertical, weight_sum_inverse))

\* ui.rs:241-267; None when other_align is false
RequiredEffectivePerpPercentage(children, nodes, vertical, weight_sum_inverse, other_align) ==
    IF other_align
    THEN LET val == RDiv(R(1), PerpSum(children, nodes, vertical, weight_sum_inverse))
         IN  Some(IF RGe(val, R(1)) THEN R(1) ELSE val)
    ELSE None

\* ui.rs:273-285 and 327-339
ScaleRatio(child, node, vertical, req_perp) ==
    IF req_perp # None
    THEN RDiv(req_perp[1], EffectivePerpPercentage(child, node, vertical))
    ELSE R(1)

\* ui.rs:271-298
RECURSIVE FlowEffectivePercentage(_, _, _, _, _)
FlowEffectivePercentage(children, nodes, vertical, weight_sum_inverse, req_perp) ==
    IF children = <<>> THEN R(0)
    ELSE RAdd(RMul(FlowPercent(Head(children), Head(nodes), vertical, weight_sum_inverse),
                   ScaleRatio(Head(children), Head(nodes), vertical, req_perp)),
              FlowEffectivePercentage(Tail(children), Tail(nodes), vertical,
                                      weight_sum_inverse, req_perp))

\* a faulty variant of FlowStartBorderPosition: Top and Bottom are exchanged
FlowStartFromTop(alignment, vertical, flow_effective_percentage) ==
    IF vertical
    THEN CASE alignment.vertical = "Top"    -> R(-1)
           [] alignment.vertical = "Center" -> RNeg(flow_effective_percentage)
           [] alignment.vertical = "Bottom" ->
                RSub(R(1), RMul(flow_effective_percentage, R(2)))
    ELSE CASE alignment.horizontal = "Left"   -> R(-1)
           [] alignment.horizontal = "Center" -> RNeg(flow_effective_percentage)
           [] alignment.horizontal = "Right"  ->
                RSub(R(1), RMul(flow_effective_percentage, R(2)))

\* a faulty variant of FlowStartBorderPosition: the far alignments start at
\* 1 - total instead of 1 - 2 * total
FlowStartHalved(alignment, vertical, flow_effective_percentage) ==
    IF vertical
    THEN CASE alignment.vertical = "Bottom" -> R(-1)
           [] alignment.vertical = "Center" -> RNeg(flow_effective_percentage)
           [] alignment.vertical = "Top"    -> RSub(R(1), flow_effective_percentage)
    ELSE CASE alignment.horizontal = "Left"   -> R(-1)
           [] alignment.horizontal = "Center" -> RNeg(flow_effective_percentage)
           [] alignment.horizontal = "Right"  -> RSub(R(1), flow_effective_percentage)

\* ui.rs:301-313
FlowStartBorderPosition(alignment, vertical, flow_effective_percentage) ==
    IF vertical
    THEN CASE alignment.vertical = "Bottom" -> R(-1)
           [] alignment.vertical = "Center" -> RNeg(flow_effective_percentage)
           [] alignment.vertical = "Top"    ->
                RSub(R(1), RMul(flow_effective_percentage, R(2)))
    ELSE CASE alignment.horizontal = "Left"   -> R(-1)
           [] alignment.horizontal = "Center" -> RNeg(flow_effective_percentage)
           [] alignment.horizontal = "Right"  ->
                RSub(R(1), RMul(flow_effective_percentage, R(2)))

\* ui.rs:342-348
InnerPaddingMatrix(child) ==
    MatMul(translate(RMul(RSub(child.padding_left, child.padding_right), Half),
                     RMul(RSub(child.padding_bottom, child.padding_top), Half)),
           scale_wh(RSub(R(1), RMul(RAdd(child.padding_left, child.padding_right), Half)),
                    RSub(R(1), RMul(RAdd(child.padding_bottom, child.padding_top), Half))))

\* ui.rs:395-409
ChildMatrix(child, vertical, weight_sum_inverse, scale_ratio, flow_center_position) ==
    MatMul(MatMul(IF vertical THEN translate(R(0), flow_center_position)
                              ELSE translate(flow_center_position, R(0)),
                  IF vertical
                  THEN scale_wh(scale_ratio,
                                RMul(RMul(scale_ratio, R(child.weight)), weight_sum_inverse))
                  ELSE scale_wh(RMul(RMul(scale_ratio, R(child.weight)), weight_sum_inverse),
                                scale_ratio)),
           InnerPaddingMatrix(child))

\* ui.rs:391: flow_percent * scale_ratio
FlowHalfStep(child, node, vertical, weight_sum_inverse, req_perp) ==
    RMul(FlowPercent(child, node, vertical, weight_sum_inverse),
         ScaleRatio(child, node, vertical, req_perp))

\* ui.rs:390-409, the matrix of one child given the running border position
TotalMatrix(child, node, vertical, weight_sum_inverse, req_perp, border) ==
    ChildMatrix(child, vertical, weight_sum_inverse,
                ScaleRatio(child, node, vertical, req_perp),
                RAdd(border, FlowHalfStep(child, node, vertical, weight_sum_inverse, req_perp)))

\* a faulty variant of AdjustEmpty: the flow margins are taken from the first and
\* the last child whether they collapse or not
AdjustEmptyAnyEdge(my, child, node, child_num, num_children, vertical, weight_sum_inverse) ==
    LET top    == RSub(node.empty_top, child.padding_top)
        right  == RSub(node.empty_right, child.padding_right)
        bottom == RSub(node.empty_bottom, child.padding_bottom)
        left   == RSub(node.empty_left, child.padding_left)
        scaled(x) == RMul(RMul(x, R(child.weight)), weight_sum_inverse)
        first  == child_num = 0
        last   == child_num = num_children - 1
    IN  IF vertical
        THEN [left   |-> IF RLt(left, my.left) THEN left ELSE my.left,
              right  |-> IF RLt(right, my.right) THEN right ELSE my.right,
              bottom |-> IF first THEN scaled(bottom) ELSE my.bottom,
              top    |-> IF last THEN scaled(top) ELSE my.top]
        ELSE [top    |-> IF RLt(top, my.top) THEN top ELSE my.top,
              bottom |-> IF RLt(bottom, my.bottom) THEN bottom ELSE my.bottom,
              left   |-> IF first THEN scaled(left) ELSE my.left,
              right  |-> IF last THEN scaled(right) ELSE my.right]

\* ui.rs:361-388, the my_empty_* variables after child number child_num (from 0)
AdjustEmpty(my, child, node, child_num, num_children, vertical, weight_sum_inverse) ==
    LET top    == RSub(node.empty_top, child.padding_top)
        right  == RSub(node.empty_right, child.padding_right)
        bottom == RSub(node.empty_bottom, child.padding_bottom)
        left   == RSub(node.empty_left, child.padding_left)
        scaled(x) == RMul(RMul(x, R(child.weight)), weight_sum_inverse)
        first  == child_num = 0 /\ ~child.collapse
        last   == child_num = num_children - 1 /\ ~child.collapse
    IN  IF vertical
        THEN [left   |-> IF RLt(left, my.left) THEN left ELSE my.left,
              right  |-> IF RLt(right, my.right) THEN right ELSE my.right,
              bottom |-> IF first THEN scaled(bottom) ELSE my.bottom,
              top    |-> IF last THEN scaled(top) ELSE my.top]
        ELSE [top    |-> IF RLt(top, my.top) THEN top ELSE my.top,
              bottom |-> IF RLt(bottom, my.bottom) THEN bottom ELSE my.bottom,
              left   |-> IF first THEN scaled(left) ELSE my.left,
              right  |-> IF last THEN scaled(right) ELSE my.right]

\* ui.rs:318-412, the walk over the children from child number i (from 0):
\* acc = [children, my, border]
RECURSIVE PlaceChildren(_, _, _, _, _, _, _)
PlaceChildren(children, nodes, i, vertical, weight_sum_inverse, req_perp, acc) ==
    IF i = Len(children) THEN acc
    ELSE PlaceChildren(children, nodes, i + 1, vertical, weight_sum_inverse, req_perp,
            [children |-> Append(acc.children,
                                 <<TotalMatrix(children[i + 1], nodes[i + 1], vertical,
                                               weight_sum_inverse, req_perp, acc.border),
                                   nodes[i + 1]>>),
             my       |-> AdjustEmpty(acc.my, children[i + 1], nodes[i + 1], i, Len(children),
                                      vertical, weight_sum_inverse),
             border   |-> RAdd(acc.border,
                               RMul(FlowHalfStep(children[i + 1], nodes[i + 1], vertical,
                                                 weight_sum_inverse, req_perp), R(2)))])

\* ui.rs:228-232
ChildHeightPerWidth(child, my_height_per_width, vertical, weight_sum_inverse) ==
    RMul(my_height_per_width,
         IF vertical
         THEN RMul(R(child.weight), weight_sum_inverse)
         ELSE RDiv(R(1), RMul(weight_sum_inverse, R(child.weight))))

\* ui.rs:318-321
MyEmptyStart(vertical) ==
    IF vertical
    THEN [top |-> R(0), right |-> R(1), bottom |-> R(0), left |-> R(1)]
    ELSE [top |-> R(1), right |-> R(0), bottom |-> R(1), left |-> R(0)]

\* ui.rs:414-423
BarNode(state, placed) ==
    Node(state, placed.children, <<>>,
         placed.my.top, placed.my.right, placed.my.bottom, placed.my.left)

\* ui.rs:300-412 once required_effective_perp_percentage is known
LayoutPlaced(state, children, nodes, alignment, vertical, weight_sum_inverse, req_perp) ==
    BarNode(state,
        PlaceChildren(children, nodes, 0, vertical, weight_sum_inverse, req_perp,
            [children |-> <<>>,
             my |-> MyEmptyStart(vertical),
             border |-> FlowStartBorderPosition(alignment, vertical,
                            FlowEffectivePercentage(children, nodes, vertical,
                                                    weight_sum_inverse, req_perp))]))

\* ui.rs:239-412 once the children nodes are built
LayoutResolved(state, children, nodes, alignment, vertical, weight_sum_inverse, other_align) ==
    LayoutPlaced(state, children, nodes, alignment, vertical, weight_sum_inverse,
                 RequiredEffectivePerpPercentage(children, nodes, vertical,
                                                 weight_sum_inverse, other_align))

RECURSIVE NodeNew(_, _, _, _)

\* ui.rs:226-237, the children nodes
ChildNodes(ws, children, vertical, my_height_per_width, weight_sum_inverse) ==
    [i \in 1..Len(children) |->
        NodeNew(ws, children[i].child,
                ChildHeightPerWidth(children[i], my_height_per_width, vertical,
                                    weight_sum_inverse),
                children[i].alignment)]

\* ui.rs:223
WeightSumInverse(children) == RDiv(R(1), R(WeightSum(children)))

\* Node::with_layout
with_layout(ws, state, children, alignment, vertical, my_height_per_width, other_align) ==
    LayoutResolved(state, children,
                   ChildNodes(ws, children, vertical, my_height_per_width,
                              WeightSumInverse(children)),
                   alignment, vertical, WeightSumInverse(children), other_align)

\* a faulty variant of AbsoluteChildren: the list is not turned into nodes
AbsoluteChildrenDropped(ws, list, my_height_per_width) == <<>>

\* ui.rs:158-160
RECURSIVE AbsoluteChildren(_, _, _)
AbsoluteChildren(ws, list, my_height_per_width) ==
    IF list = <<>> THEN <<>>
    ELSE <<<<Head(list)[1], NodeNew(ws, Head(list)[2], my_height_per_width, Center)>>>>
         \o AbsoluteChildren(ws, Tail(list), my_height_per_width)

\* ui.rs:201-210
ShapesNode(state, shapes, e) == Node(state, <<>>, shapes, e.top, e.right, e.bottom, e.left)

\* ui.rs:150-212, the match on the layout the widget returned
NodeOfLayout(ws, state, layout, my_height_per_width) ==
    CASE layout.tag = "AbsolutePositionned" ->
            Node(state, AbsoluteChildren(ws, layout.list, my_height_per_width), <<>>,
                 R(0), R(0), R(0), R(0))
      [] layout.tag = "HorizontalBar" ->
            with_layout(ws, state, layout.children,
                        [horizontal |-> layout.alignment, vertical |-> "Center"],
                        FALSE, my_height_per_width, layout.vertical_align)
      [] layout.tag = "VerticalBar" ->
            with_layout(ws, state, layout.children,
                        [horizontal |-> "Center", vertical |-> layout.alignment],
                        TRUE, my_height_per_width, layout.horizontal_align)
      [] layout.tag = "Shapes" ->
            ShapesNode(state, layout.shapes,
                       ShapesEmpty(layout.shapes,
                           [top |-> R(1), right |-> R(1), bottom |-> R(1), left |-> R(1)]))

\* Node::new of the widget with id `state`
NodeNew(ws, state, my_height_per_width, alignment) ==
    NodeOfLayout(ws, state, build_layout(ws[state], my_height_per_width, alignment),
                 my_height_per_width)

(* ------------------------------------------------------------------ *)
(* ui.rs: the scan, the flattening and the dispatch                    *)
(* ------------------------------------------------------------------ *)

RECURSIVE needs_rebuild(_, _)

\* a faulty variant of ChildrenNeedRebuild: the scan goes on after a positive
RECURSIVE ChildrenAllScanned(_, _, _)
ChildrenAllScanned(children, i, ws) ==
    IF i > Len(children) THEN [answer |-> FALSE, children |-> children, ws |-> ws]
    ELSE LET r == needs_rebuild(children[i][2], ws)
             rest == ChildrenAllScanned([children EXCEPT ![i] = <<children[i][1], r.node>>],
                                        i + 1, r.ws)
         IN  [answer |-> r.answer \/ rest.answer, children |-> rest.children, ws |-> rest.ws]

\* a faulty variant of ChildrenNeedRebuild: the children are not scanned
ChildrenNotScanned(children, i, ws) ==
    [answer |-> FALSE, children |-> children, ws |-> ws]

\* ui.rs:437-441: the children from number i on, stopping at the first positive
RECURSIVE ChildrenNeedRebuild(_, _, _)
ChildrenNeedRebuild(children, i, ws) ==
    IF i > Len(children) THEN [answer |-> FALSE, children |-> children, ws |-> ws]
    ELSE LET r == needs_rebuild(children[i][2], ws)
             cs == [children EXCEPT ![i] = <<children[i][1], r.node>>]
         IN  IF r.answer THEN [answer |-> TRUE, children |-> cs, ws |-> r.ws]
             ELSE ChildrenNeedRebuild(cs, i + 1, r.ws)

\* Node::needs_rebuild: the answer, the node and the widgets afterwards
needs_rebuild(self, ws) ==
    IF self.needs_rebuild
    THEN [answer |-> TRUE, node |-> [self EXCEPT !.needs_rebuild = FALSE], ws |-> ws]
    ELSE LET p == widget_needs_rebuild(ws[self.state])
             ws1 == [ws EXCEPT ![self.state] = p.w]
         IN  IF p.answer THEN [answer |-> TRUE, node |-> self, ws |-> ws1]
             ELSE LET r == ChildrenNeedRebuild(self.children, 1, ws1)
                  IN  [answer |-> r.answer,
                       node |-> [self EXCEPT !.children = r.children],
                       ws |-> r.ws]

RECURSIVE ApplyAll(_, _)
ApplyAll(shapes, m) ==
    IF shapes = <<>> THEN <<>>
    ELSE <<apply_matrix(Head(shapes), m)>> \o ApplyAll(Tail(shapes), m)

RECURSIVE build_shapes(_)

\* a faulty variant of ChildrenShapes: the children are walked from the last
RECURSIVE ChildrenShapesReversed(_)
ChildrenShapesReversed(children) ==
    IF children = <<>> THEN <<>>
    ELSE ChildrenShapesReversed(Tail(children))
         \o ApplyAll(build_shapes(Head(children)[2]), Head(children)[1])

RECURSIVE ChildrenShapes(_)
ChildrenShapes(children) ==
    IF children = <<>> THEN <<>>
    ELSE ApplyAll(build_shapes(Head(children)[2]), Head(children)[1])
         \o ChildrenShapes(Tail(children))

\* Node::build_shapes
build_shapes(self) == ChildrenShapes(self.children) \o self.shapes

\* one entry of the record of handle_event calls of a pass: the position of the
\* node in the tree (the child numbers from the root), the event and child_num
Call(path, event, child_num) ==
    [path |-> path, event |-> event, child_num |-> child_num, panic |-> FALSE]

\* the entry of a handle_event call that panicked
PanicCall(path, event, child_num) == [Call(path, event, child_num) EXCEPT !.panic = TRUE]

\* a faulty variant of Unwinding: a panic of handle_event is caught at the call
UnwindingCaught(calls) == FALSE

\* the pass is unwinding: its last handle_event call panicked, and the stack of
\* mouse_update and send_event frames is left without running anything further
Unwinding(calls) == calls # <<>> /\ calls[Len(calls)].panic

\* ui.rs:462, a handle_event that panics: nothing of send_event runs after it
send_event_panicked(st, path, event, child_num) ==
    [node   |-> st.node,
     ws     |-> st.ws,
     calls  |-> Append(st.calls, PanicCall(path, event, child_num)),
     result |-> <<>>]

\* a faulty variant of send_event_returned: the flag is assigned the outcome's
\* refresh_layout
send_event_assigns_flag(st, path, event, child_num, h) ==
    [node   |-> [st.node EXCEPT !.needs_rebuild = h.outcome.refresh_layout],
     ws     |-> [st.ws EXCEPT ![st.node.state] = h.w],
     calls  |-> Append(st.calls, Call(path, event, child_num)),
     result |-> h.outcome.events_for_parent
                \o (IF h.outcome.propagate_to_parent THEN <<event>> ELSE <<>>)]

\* a faulty variant of send_event_returned: propagate_to_parent is not looked at
send_event_always_propagates(st, path, event, child_num, h) ==
    [node   |-> IF h.outcome.refresh_layout
                THEN [st.node EXCEPT !.needs_rebuild = TRUE] ELSE st.node,
     ws     |-> [st.ws EXCEPT ![st.node.state] = h.w],
     calls  |-> Append(st.calls, Call(path, event, child_num)),
     result |-> h.outcome.events_for_parent \o <<event>>]

\* ui.rs:462-472, a handle_event that returns
send_event_returned(st, path, event, child_num, h) ==
    [node   |-> IF h.outcome.refresh_layout
                THEN [st.node EXCEPT !.needs_rebuild = TRUE] ELSE st.node,
     ws     |-> [st.ws EXCEPT ![st.node.state] = h.w],
     calls  |-> Append(st.calls, Call(path, event, child_num)),
     result |-> h.outcome.events_for_parent
                \o (IF h.outcome.propagate_to_parent THEN <<event>> ELSE <<>>)]

\* Node::send_event; st = [node, ws, calls], the result adds the events to
\* propagate to the parent
send_event(st, path, event, child_num) ==
    IF Unwinding(st.calls)
    THEN [node |-> st.node, ws |-> st.ws, calls |-> st.calls, result |-> <<>>]
    ELSE IF handle_event(st.ws[st.node.state], event, child_num).outcome = Panic
    THEN send_event_panicked(st, path, event, child_num)
    ELSE send_event_returned(st, path, event, child_num,
                             handle_event(st.ws[st.node.state], event, child_num))

\* ui.rs:495-499 and the loops of 512, 518, 525: send the events in turn,
\* appending what each returns to result; events are pairs <<event, child_num>>
RECURSIVE SendAll(_, _, _, _)
SendAll(st, path, events, result) ==
    IF events = <<>> THEN [node |-> st.node, ws |-> st.ws, calls |-> st.calls,
                           result |-> result]
    ELSE LET r == send_event(st, path, Head(events)[1], Head(events)[2])
         IN  SendAll(r, path, Tail(events), result \o r.result)

Tag(events, num) == [i \in 1..Len(events) |-> <<events[i], Some(num)>>]

\* ui.rs:502-506
Hit(shapes, matrix, mouse) ==
    IF mouse # None
    THEN \E i \in 1..Len(shapes) : hit_test(apply_matrix(shapes[i], matrix), mouse[1])
    ELSE FALSE

\* a faulty variant of OwnEvents: the click does not ask for a hit
OwnEventsClickWithoutHit(hit, new_mouse_down, old_mouse_down) ==
    <<(IF hit THEN <<"MouseEnterEvent", None>> ELSE <<"MouseLeaveEvent", None>>)>>
    \o (IF ~new_mouse_down /\ old_mouse_down
        THEN << <<"MouseClick", None>> >> ELSE <<>>)

\* a faulty variant of OwnEvents: no MouseLeaveEvent for a node that is not hit
OwnEventsWithoutLeave(hit, new_mouse_down, old_mouse_down) ==
    (IF hit THEN << <<"MouseEnterEvent", None>> >> ELSE <<>>)
    \o (IF hit /\ ~new_mouse_down /\ old_mouse_down
        THEN << <<"MouseClick", None>> >> ELSE <<>>)

\* ui.rs:510-528: the events the node sends to its own widget
OwnEvents(hit, new_mouse_down, old_mouse_down) ==
    <<(IF hit THEN <<"MouseEnterEvent", None>> ELSE <<"MouseLeaveEvent", None>>)>>
    \o (IF hit /\ ~new_mouse_down /\ old_mouse_down
        THEN << <<"MouseClick", None>> >> ELSE <<>>)

RECURSIVE mouse_update(_, _, _, _, _, _, _, _)

\* ui.rs:485-493: the children from number num (from 0) on; acc = [children, ws,
\* calls, events_for_self]
RECURSIVE ChildrenMouseUpdate(_, _, _, _, _, _, _)
ChildrenMouseUpdate(acc, num, path, mouse, matrix, new_mouse_down, old_mouse_down) ==
    IF num = Len(acc.children) THEN acc
    ELSE LET c == acc.children[num + 1]
             r == mouse_update(c[2], acc.ws, acc.calls, Append(path, num), mouse,
                               MatMul(matrix, c[1]), new_mouse_down, old_mouse_down)
         IN  ChildrenMouseUpdate(
                [children |-> [acc.children EXCEPT ![num + 1] = <<c[1], r.node>>],
                 ws |-> r.ws,
                 calls |-> r.calls,
                 events_for_self |-> acc.events_for_self \o Tag(r.result, num)],
                num + 1, path, mouse, matrix, new_mouse_down, old_mouse_down)

\* ui.rs:495-499
SendForwarded(self, cs, path) ==
    SendAll([node |-> [self EXCEPT !.children = cs.children], ws |-> cs.ws,
             calls |-> cs.calls],
            path, cs.events_for_self, <<>>)

\* a faulty variant of SendOwn: what the forwarded events returned is dropped
SendOwnAlone(forwarded, path, own) == SendAll(forwarded, path, own, <<>>)

\* ui.rs:510-530
SendOwn(forwarded, path, own) == SendAll(forwarded, path, own, forwarded.result)

\* a faulty variant of mouse_update: the node's own events are sent before its
\* children are visited
mouse_update_own_first(self, ws, calls, path, mouse, matrix, new_mouse_down, old_mouse_down) ==
    LET own == SendAll([node |-> self, ws |-> ws, calls |-> calls], path,
                       OwnEvents(Hit(self.shapes, matrix, mouse), new_mouse_down,
                                 old_mouse_down),
                       <<>>)
        cs  == ChildrenMouseUpdate([children |-> self.children, ws |-> own.ws,
                                    calls |-> own.calls, events_for_self |-> <<>>],
                                   0, path, mouse, matrix, new_mouse_down, old_mouse_down)
    IN  SendAll([node |-> [own.node EXCEPT !.children = cs.children], ws |-> cs.ws,
                 calls |-> cs.calls],
                path, cs.events_for_self, own.result)

\* Node::mouse_update: the node, the widgets and the calls afterwards, and the
\* events to propagate to the parent
mouse_update(self, ws, calls, path, mouse, matrix, new_mouse_down, old_mouse_down) ==
    SendOwn(SendForwarded(self,
                ChildrenMouseUpdate([children |-> self.children, ws |-> ws, calls |-> calls,
                                     events_for_self |-> <<>>],
                                    0, path, mouse, matrix, new_mouse_down, old_mouse_down),
                path),
            path,
            OwnEvents(Hit(self.shapes, matrix, mouse), new_mouse_down, old_mouse_down))

(* ------------------------------------------------------------------ *)
(* The widget hierarchies the engine is run on                         *)
(* ------------------------------------------------------------------ *)

MaxWeight == 2

Root == "root"

Events == {"MouseEnterEvent", "MouseLeaveEvent", "MouseClick", "Notify"}

\* handle_event implementations of application widgets
DefaultHandler == [e \in Events |-> DefaultOutcome]

RefreshHandler == [e \in Events |-> EventOutcome(e = "MouseClick", TRUE, <<>>)]

SwallowHandler == [e \in Events |-> EventOutcome(FALSE, e = "Notify", <<>>)]

NotifyHandler ==
    [e \in Events |-> EventOutcome(FALSE, FALSE,
                                   IF e = "MouseClick" THEN <<"Notify">> ELSE <<>>)]

\* a handle_event that panics on a click
PanicHandler == [e \in Events |-> IF e = "MouseClick" THEN Panic ELSE DefaultOutcome]

Handlers == {DefaultHandler, RefreshHandler, SwallowHandler, NotifyHandler}

Custom(layout, handler) ==
    [kind |-> "Custom", layout |-> layout, handler |-> handler, stale |-> FALSE]

\* the FullWidget of tests/layout.rs
FullWidget == Custom(Shapes(<<Image(identity, "")>>), DefaultHandler)

Child(child, weight, collapse) ==
    [child |-> child, weight |-> weight, collapse |-> collapse, alignment |-> Center,
     padding_top |-> R(0), padding_right |-> R(0),
     padding_bottom |-> R(0), padding_left |-> R(0)]

HorizontalBar(alignment, children, vertical_align) ==
    [tag |-> "HorizontalBar", alignment |-> alignment, children |-> children,
     vertical_align |-> vertical_align]

VerticalBar(alignment, children, horizontal_align) ==
    [tag |-> "VerticalBar", alignment |-> alignment, children |-> children,
     horizontal_align |-> horizontal_align]

AbsolutePositionned(list) == [tag |-> "AbsolutePositionned", list |-> list]

ImageWidget(name, height_per_width) ==
    [kind |-> "Image", name |-> name, height_per_width |-> height_per_width]

ImageButton(normal, hovered, height_per_width) ==
    [kind |-> "ImageButton", hovered |-> FALSE, image_normal |-> normal,
     image_hovered |-> hovered, height_per_width |-> height_per_width]

Label(text) == [kind |-> "Label", text |-> text, needs_refresh |-> FALSE]

\* tests/layout.rs basic
BasicWidgets == (Root :> FullWidget)

\* tests/layout.rs horizontal_split_two
SplitTwoWidgets ==
    (Root :> Custom(HorizontalBar("Center",
                                  <<Child("a", 1, FALSE), Child("b", 1, FALSE)>>, FALSE),
                    DefaultHandler))
    @@ ("a" :> FullWidget) @@ ("b" :> FullWidget)

\* a button and a label in a weighted bar placed by an absolute layout
PanelWidgets(wa, wb, alignment, h1, h2) ==
    (Root :> Custom(AbsolutePositionned(
                        << <<MatMul(translate(Q(1, 2), R(0)), scale_wh(Half, Half)), "bar">> >>),
                    h1))
    @@ ("bar" :> Custom(HorizontalBar(alignment,
                                      <<Child("a", wa, FALSE), Child("b", wb, FALSE)>>, FALSE),
                        h2))
    @@ ("a" :> ImageButton("normal", "hovered", R(1)))
    @@ ("b" :> Label("x"))

\* an image above an application leaf in a column
ColumnWidgets(h1, h2) ==
    (Root :> Custom(VerticalBar("Center",
                                <<Child("a", 1, FALSE), Child("b", 1, FALSE)>>, FALSE),
                    h1))
    @@ ("a" :> ImageWidget("normal", R(1)))
    @@ ("b" :> Custom(Shapes(<<Image(identity, "")>>), h2))

\* a leaf that draws two images beside an image in a bar placed by an absolute layout
BadgeWidgets ==
    (Root :> Custom(AbsolutePositionned(<< <<scale_wh(Half, Half), "bar">> >>),
                    DefaultHandler))
    @@ ("bar" :> Custom(HorizontalBar("Center",
                                      <<Child("a", 1, FALSE), Child("b", 1, FALSE)>>, FALSE),
                        DefaultHandler))
    @@ ("a" :> Custom(Shapes(<<Image(identity, "normal"),
                                Image(scale_wh(Half, Half), "other")>>),
                      DefaultHandler))
    @@ ("b" :> ImageWidget("normal", R(1)))

Scenarios ==
    {BasicWidgets, SplitTwoWidgets,
     PanelWidgets(MaxWeight, 1, "Center", RefreshHandler, DefaultHandler),
     ColumnWidgets(SwallowHandler, NotifyHandler),
     BadgeWidgets}

\* the sequences of 1 to 3 weights
WeightLists ==
    UNION {[1..n -> 1..MaxWeight] : n \in 1..3}

LeafIds == <<"a", "b", "c">>

\* a bar over the leaves a (the full image), b (an image of ratio 1), c (a label)
BarWidgets(vertical, alignment, weights, collapse, other_align) ==
    (Root :> Custom(
        IF vertical
        THEN VerticalBar(alignment,
                         [i \in 1..Len(weights) |-> Child(LeafIds[i], weights[i], collapse)],
                         other_align)
        ELSE HorizontalBar(alignment,
                           [i \in 1..Len(weights) |-> Child(LeafIds[i], weights[i], collapse)],
                           other_align),
        DefaultHandler))
    @@ ("a" :> FullWidget) @@ ("b" :> ImageWidget("normal", R(1))) @@ ("c" :> Label("xy"))

LayoutScenarios ==
    {SplitTwoWidgets}
    \cup {BarWidgets(FALSE, al, weights, collapse, other_align) :
            al \in {"Left", "Center", "Right"}, weights \in WeightLists,
            collapse \in BOOLEAN, other_align \in BOOLEAN}
    \cup {BarWidgets(TRUE, al, weights, collapse, other_align) :
            al \in {"Top", "Center", "Bottom"}, weights \in WeightLists,
            collapse \in BOOLEAN, other_align \in BOOLEAN}

\* the four paddings of a Child
Padding(top, right, bottom, left) ==
    [top |-> top, right |-> right, bottom |-> bottom, left |-> left]

\* how a bar treats a child: collapse and the paddings (none, or some at the top
\* and on the left)
Styles ==
    {[collapse |-> c, padding |-> pad] :
        c \in BOOLEAN,
        pad \in {Padding(R(0), R(0), R(0), R(0)), Padding(Half, R(0), R(0), Q(1, 4))}}

StyledChild(child, weight, style) ==
    [child |-> child, weight |-> weight, collapse |-> style.collapse, alignment |-> Center,
     padding_top |-> style.padding.top, padding_right |-> style.padding.right,
     padding_bottom |-> style.padding.bottom, padding_left |-> style.padding.left]

\* a leaf whose image fills the middle half of its box in both directions
HalfWidget == Custom(Shapes(<<Image(scale_wh(Half, Half), "")>>), DefaultHandler)

\* a leaf whose image fills the top right quarter of its box
CornerWidget ==
    Custom(Shapes(<<Image(MatMul(translate(Half, Half), scale_wh(Half, Half)), "")>>),
           DefaultHandler)

\* the leaves of a styled bar, in list order
LeafOrders == {<<"a">>, <<"h", "a">>, <<"q", "h">>, <<"a", "q", "h">>}

\* the weights of a styled bar of n children
StyledWeights(n) == {[i \in 1..n |-> 1], [i \in 1..n |-> IF i = 1 THEN MaxWeight ELSE 1]}

\* a bar over application leaves with fixed shapes
StyledBarWidgets(vertical, alignment, leaves, weights, styles, other_align) ==
    (Root :> Custom(
        IF vertical
        THEN VerticalBar(alignment,
                         [i \in 1..Len(leaves) |->
                              StyledChild(leaves[i], weights[i], styles[i])],
                         other_align)
        ELSE HorizontalBar(alignment,
                           [i \in 1..Len(leaves) |->
                                StyledChild(leaves[i], weights[i], styles[i])],
                           other_align),
        DefaultHandler))
    @@ ("a" :> FullWidget) @@ ("h" :> HalfWidget) @@ ("q" :> CornerWidget)

StyledScenarios ==
    UNION {{StyledBarWidgets(FALSE, al, leaves, weights, styles, other_align) :
                al \in {"Left", "Center", "Right"}, weights \in StyledWeights(Len(leaves)),
                styles \in [1..Len(leaves) -> Styles], other_align \in BOOLEAN}
           \cup {StyledBarWidgets(TRUE, al, leaves, weights, styles, other_align) :
                al \in {"Top", "Center", "Bottom"}, weights \in StyledWeights(Len(leaves)),
                styles \in [1..Len(leaves) -> Styles], other_align \in BOOLEAN} :
           leaves \in LeafOrders}

\* where a widget puts an image in its [-1,1] box: the centre and the half-size
Placements ==
    {MatMul(translate(x, y), scale_wh(size, size)) :
        x \in {Q(-1, 2), R(0), Half}, y \in {Q(-1, 2), R(0), Half}, size \in {Half, Q(1, 4)}}

\* a widget alone that returns Layout::Shapes of one or two images
LeafScenarios ==
    {(Root :> Custom(Shapes(<<Image(m, "")>>), DefaultHandler)) : m \in Placements}
    \cup {(Root :> Custom(Shapes(<<Image(m, ""), Image(n, "")>>), DefaultHandler)) :
              m \in Placements, n \in Placements}

\* the layouts that list no child
EmptyLayouts ==
    {AbsolutePositionned(<<>>)}
    \cup {HorizontalBar(al, <<>>, flag) : al \in {"Left", "Center", "Right"}, flag \in BOOLEAN}
    \cup {VerticalBar(al, <<>>, flag) : al \in {"Top", "Center", "Bottom"}, flag \in BOOLEAN}

\* a widget that lists no child: alone, and beside a leaf under an absolute
\* layout and under a bar
EmptyListScenarios ==
    {(Root :> Custom(layout, DefaultHandler)) : layout \in EmptyLayouts}
    \cup {(Root :> Custom(AbsolutePositionned(<< <<scale_wh(Half, Half), "e">>,
                                                 <<identity, "a">> >>),
                          DefaultHandler))
          @@ ("e" :> Custom(layout, DefaultHandler)) @@ ("a" :> FullWidget) :
              layout \in EmptyLayouts}
    \cup {(Root :> Custom(HorizontalBar("Center",
                                        <<Child("e", 1, collapse), Child("a", 1, FALSE)>>,
                                        flag),
                          DefaultHandler))
          @@ ("e" :> Custom(layout, DefaultHandler)) @@ ("a" :> FullWidget) :
              layout \in EmptyLayouts, collapse \in BOOLEAN, flag \in BOOLEAN}

\* Matrix([[1.0, 0.0, 0.0], [1.0, 1.0, 0.0], [0.0, 0.0, 1.0]]): x' = x + y, y' = y
Shear == <<<<R(1), R(0), R(0)>>, <<R(1), R(1), R(0)>>, <<R(0), R(0), R(1)>>>>

\* the matrices an application gives a shape or a child of an absolute layout
HitMatrices ==
    {identity, scale_wh(Half, Q(-1, 2)), MatMul(translate(Half, R(0)), scale_wh(Half, Half)),
     Shear}

\* a leaf of one image placed by an absolute layout, and a bar of two leaves
\* placed by one
HitScenarios ==
    {(Root :> Custom(AbsolutePositionned(<< <<outer, "a">> >>), DefaultHandler))
     @@ ("a" :> Custom(Shapes(<<Image(inner, "")>>), DefaultHandler)) :
        outer \in HitMatrices, inner \in HitMatrices}
    \cup
    {(Root :> Custom(AbsolutePositionned(<< <<outer, "bar">> >>), DefaultHandler))
     @@ ("bar" :> Custom(HorizontalBar("Center",
                                      <<Child("a", 1, FALSE), Child("b", 1, FALSE)>>, FALSE),
                        DefaultHandler))
     @@ ("a" :> FullWidget) @@ ("b" :> FullWidget) :
        outer \in {identity, scale_wh(Half, Q(-1, 2))}}

HitCursors ==
    {None, Some(<<R(0), R(0)>>), Some(<<Half, R(0)>>), Some(<<Q(1, 4), Q(1, 4)>>),
     Some(<<Q(-3, 4), Half>>), Some(<<R(1), R(1)>>)}

\* Label::new(text), followed or not by set_text(text)
StaleLabel(text, stale) == [Label(text) EXCEPT !.needs_refresh = stale]

\* three labels, two of them in a column beside the third; in pre-order the
\* nodes are root, a, c, d, b
StaleWidgets(b, c, d) ==
    (Root :> Custom(HorizontalBar("Center",
                                  <<Child("a", 1, FALSE), Child("b", 1, FALSE)>>, FALSE),
                    DefaultHandler))
    @@ ("a" :> Custom(VerticalBar("Center",
                                  <<Child("c", 1, FALSE), Child("d", 1, FALSE)>>, FALSE),
                      DefaultHandler))
    @@ ("b" :> b) @@ ("c" :> c) @@ ("d" :> d)

StaleLabels == {StaleLabel(text, stale) : text \in {"x", "xy"}, stale \in BOOLEAN}

StaleScenarios == {StaleWidgets(b, c, d) : b \in StaleLabels, c \in StaleLabels, d \in StaleLabels}

Ratios == {R(1), R(2)}

Cursors == {None, Some(<<Q(1, 4), R(0)>>), Some(<<Q(3, 4), Q(-3, 4)>>)}

Names == {"normal", "other"}

Texts == {"x", "xy"}

(* ------------------------------------------------------------------ *)
(* State                                                               *)
(* ------------------------------------------------------------------ *)

VARIABLES
    ws,                         \* the application's widgets (Ui::widget and what it owns)
    viewport_height_per_width,  \* Ui::viewport_height_per_width
    main_node,                  \* Ui::main_node
    hovering,                   \* Ui::hovering
    mouse_down,                 \* Ui::mouse_down
    last,                       \* the last call that returned and what it did
    button,                     \* the button state of the last cursor sample given
    resolved,                   \* the widgets and ratio main_node was resolved from
    pc,                         \* where each thread is in the call it makes, and its locals
    lock,                       \* the thread holding the Mutex of main_node, if any
    hit,                        \* the last cursor sample given hit a shape of some node
    poisoned,                   \* the Mutex of main_node is poisoned
    panicked,                   \* a handle_event call has panicked
    viewport_lock               \* the thread holding the Mutex of the ratio, if any

vars == <<ws, viewport_height_per_width, main_node, hovering, mouse_down, last, button,
          resolved, pc, lock, hit, poisoned, panicked, viewport_lock>>

Threads == {"t1", "t2"}

\* a thread that is in no call
Idle ==
    [at |-> "idle", op |-> "", value |-> <<>>, viewport |-> <<>>, tree |-> <<>>,
     widgets |-> <<>>, cursor |-> None, down |-> FALSE]

RECURSIVE NodeCount(_)

RECURSIVE ChildrenCount(_)
ChildrenCount(children) ==
    IF children = <<>> THEN 0
    ELSE NodeCount(Head(children)[2]) + ChildrenCount(Tail(children))

\* the number of nodes of a tree: the build_layout calls of its resolution
NodeCount(node) == 1 + ChildrenCount(node.children)

\* the positions of the nodes of a tree: the child numbers (from 0) from the root
RECURSIVE Paths(_)
Paths(node) ==
    {<<>>} \cup UNION {{<<i - 1>> \o p : p \in Paths(node.children[i][2])} :
                        i \in 1..Len(node.children)}

RECURSIVE NodeAt(_, _)
NodeAt(node, path) ==
    IF path = <<>> THEN node
    ELSE NodeAt(node.children[Head(path) + 1][2], Tail(path))

AnyDirty(node) == \E p \in Paths(node) : NodeAt(node, p).needs_rebuild

\* some widget the tree refers to would answer needs_rebuild() with true
AnyStale(node, widgets) ==
    \E p \in Paths(node) : widget_needs_rebuild(widgets[NodeAt(node, p).state]).answer

Returned(op, arg, shapes, builds, calls) ==
    [op |-> op, arg |-> arg, shapes |-> shapes, builds |-> builds, calls |-> calls,
     failed |-> FALSE]

\* a call that panicked
Failed(op, arg) == [Returned(op, arg, <<>>, 0, <<>>) EXCEPT !.failed = TRUE]

\* Ui::new
UiNew(state, ratio) ==
    /\ ws = state
    /\ viewport_height_per_width = ratio
    /\ main_node = NodeNew(state, Root, ratio, Center)
    /\ hovering = FALSE
    /\ mouse_down = FALSE
    /\ last = Returned("new", <<>>, <<>>, 0, <<>>)
    /\ button = FALSE
    /\ resolved = [ws |-> state, ratio |-> ratio]
    /\ pc = [t \in Threads |-> Idle]
    /\ lock = None
    /\ hit = FALSE
    /\ poisoned = FALSE
    /\ panicked = FALSE
    /\ viewport_lock = None

Init == \E state \in Scenarios : UiNew(state, R(1))

\* ui.rs:86
DrawFlatten(tree, scan) ==
    [node |-> tree, ws |-> scan.ws, rebuilt |-> scan.answer, shapes |-> build_shapes(tree)]

\* a faulty variant of DrawScanned: the tree is resolved anew on every draw
DrawAlwaysResolved(scan, viewport) ==
    DrawFlatten(NodeNew(scan.ws, Root, viewport, Center), scan)

\* ui.rs:77-84
DrawScanned(scan, viewport) ==
    DrawFlatten(IF scan.answer THEN NodeNew(scan.ws, Root, viewport, Center) ELSE scan.node,
                scan)

\* ui.rs:77-86 with the tree lock held: the tree, the widgets and the shapes
DrawLocked(node, widgets, viewport) == DrawScanned(needs_rebuild(node, widgets), viewport)

DrawReturn(d, viewport) ==
    /\ main_node' = d.node
    /\ ws' = d.ws
    /\ resolved' = IF d.rebuilt THEN [ws |-> d.ws, ratio |-> viewport] ELSE resolved
    /\ last' = Returned("draw",
                        [dirty |-> AnyDirty(main_node), stale |-> AnyStale(main_node, ws),
                         after_draw |-> last.op = "draw"],
                        d.shapes, IF d.rebuilt THEN NodeCount(d.node) ELSE 0, <<>>)

\* Ui::draw
Draw ==
    /\ ~poisoned
    /\ DrawReturn(DrawLocked(main_node, ws, viewport_height_per_width),
                  viewport_height_per_width)
    /\ UNCHANGED <<viewport_height_per_width, hovering, viewport_lock, mouse_down, button, hit,
                   poisoned, panicked, pc, lock>>

\* a faulty variant of RebuildStore: the tree is kept when nothing in it is dirty
RebuildStoreUnlessClean(tree, widgets, viewport, op, arg) ==
    /\ main_node' = IF AnyDirty(main_node) THEN tree ELSE main_node
    /\ resolved' = IF AnyDirty(main_node) THEN [ws |-> widgets, ratio |-> viewport]
                                           ELSE resolved
    /\ last' = Returned(op, arg, <<>>, NodeCount(tree), <<>>)

\* ui.rs:59
RebuildStore(tree, widgets, viewport, op, arg) ==
    /\ main_node' = tree
    /\ resolved' = [ws |-> widgets, ratio |-> viewport]
    /\ last' = Returned(op, arg, <<>>, NodeCount(tree), <<>>)

\* Ui::rebuild
Rebuild ==
    /\ ~poisoned
    /\ RebuildStore(NodeNew(ws, Root, viewport_height_per_width, Center), ws,
                    viewport_height_per_width, "rebuild", <<>>)
    /\ UNCHANGED <<ws, viewport_height_per_width, hovering, viewport_lock, mouse_down, button, hit,
                   poisoned, panicked, pc, lock>>

\* a faulty variant of ViewportChanged: the new value is not compared
ViewportNotCompared(viewport, value) == TRUE

\* ui.rs:94
ViewportChanged(viewport, value) == RNe(viewport, value)

\* Ui::set_viewport_height_per_width
SetViewportHeightPerWidth(value) ==
    /\ ViewportChanged(viewport_height_per_width, value) => ~poisoned
    /\ IF ViewportChanged(viewport_height_per_width, value)
       THEN /\ viewport_height_per_width' = value
            /\ RebuildStore(NodeNew(ws, Root, value, Center), ws, value,
                            "set_viewport_height_per_width", value)
       ELSE /\ last' = Returned("set_viewport_height_per_width", value, <<>>, 0, <<>>)
            /\ UNCHANGED <<viewport_height_per_width, main_node, resolved>>
    /\ UNCHANGED <<ws, hovering, viewport_lock, mouse_down, button, hit, poisoned, panicked,
                   pc, lock>>

\* ui.rs:112-114 with the tree lock held: mouse_down.swap(down) is passed as
\* new_mouse_down and down as old_mouse_down
SetCursorLocked(node, widgets, stored_down, cursor, down) ==
    mouse_update(node, widgets, <<>>, <<>>, cursor, identity, stored_down, down)

\* ui.rs:113-117; the MutexGuard of main_node dropped while the thread is
\* panicking poisons the Mutex
SetCursorReturn(r, cursor, down) ==
    /\ main_node' = r.node
    /\ ws' = r.ws
    /\ hit' = \E i \in 1..Len(r.calls) :
                   r.calls[i].event = "MouseEnterEvent" /\ r.calls[i].child_num = None
    /\ poisoned' = Unwinding(r.calls)
    /\ panicked' = (panicked \/ \E i \in 1..Len(r.calls) : r.calls[i].panic)
    /\ last' = [Returned("set_cursor",
                         [cursor |-> cursor, down |-> down, was_down |-> button,
                          repeat |-> /\ last.op = "set_cursor"
                                     /\ last.arg.cursor = cursor
                                     /\ last.arg.down = down],
                         <<>>, 0, r.calls)
                EXCEPT !.failed = Unwinding(r.calls)]

\* Ui::set_cursor
SetCursor(cursor, down) ==
    /\ ~poisoned
    /\ SetCursorReturn(SetCursorLocked(main_node, ws, mouse_down, cursor, down), cursor, down)
    /\ mouse_down' = down
    /\ button' = down
    /\ UNCHANGED <<viewport_height_per_width, hovering, viewport_lock, resolved, pc, lock>>

\* Ui::is_hovering
IsHovering ==
    /\ last' = Returned("is_hovering", hovering, <<>>, 0, <<>>)
    /\ UNCHANGED <<ws, viewport_height_per_width, main_node, hovering, viewport_lock,
                   mouse_down, button, hit, poisoned, panicked, resolved, pc, lock>>

\* what the application can do to widget id through the reference Ui::widget
\* gives it: Image::set_name, Label::set_text
Mutations(id) ==
    CASE ws[id].kind = "Image" ->
            {[ws[id] EXCEPT !.name = n] : n \in Names \ {ws[id].name}}
      [] ws[id].kind = "Label" ->
            {[ws[id] EXCEPT !.text = t, !.needs_refresh = TRUE] : t \in Texts}
      [] OTHER -> {}

\* Ui::widget, and the application changing the state it got
Widget ==
    \E id \in DOMAIN ws : \E w \in Mutations(id) :
        /\ ws' = [ws EXCEPT ![id] = w]
        /\ last' = Returned("widget", id, <<>>, 0, <<>>)
        /\ UNCHANGED <<viewport_height_per_width, main_node, hovering, viewport_lock,
                       mouse_down, button, hit, poisoned, panicked, resolved, pc, lock>>

Next ==
    \/ Draw
    \/ Rebuild
    \/ \E value \in Ratios : SetViewportHeightPerWidth(value)
    \/ \E cursor \in Cursors, down \in BOOLEAN : SetCursor(cursor, down)
    \/ IsHovering
    \/ Widget

Spec == Init /\ [][Next]_vars

(* ------------------------------------------------------------------ *)
(* The calls made after a handle_event has panicked                    *)
(* ------------------------------------------------------------------ *)

\* ui.rs:75: lock().unwrap() panics on a poisoned Mutex
DrawFails ==
    /\ poisoned
    /\ last' = Failed("draw", <<>>)
    /\ UNCHANGED <<ws, viewport_height_per_width, main_node, hovering, viewport_lock,
                   mouse_down, button, hit, poisoned, panicked, resolved, pc, lock>>

\* ui.rs:59: Node::new runs, then lock().unwrap() panics
RebuildFails ==
    /\ poisoned
    /\ last' = Failed("rebuild", <<>>)
    /\ UNCHANGED <<ws, viewport_height_per_width, main_node, hovering, viewport_lock,
                   mouse_down, button, hit, poisoned, panicked, resolved, pc, lock>>

\* ui.rs:92-104: the ratio is stored, then rebuild() panics
SetViewportFails(value) ==
    /\ poisoned
    /\ ViewportChanged(viewport_height_per_width, value)
    /\ viewport_height_per_width' = value
    /\ last' = Failed("set_viewport_height_per_width", value)
    /\ UNCHANGED <<ws, main_node, hovering, viewport_lock, mouse_down, button, hit, poisoned,
                   panicked, resolved, pc, lock>>

\* ui.rs:112: lock().unwrap() panics before mouse_down is swapped
SetCursorFails(cursor, down) ==
    /\ poisoned
    /\ last' = Failed("set_cursor", [cursor |-> cursor, down |-> down])
    /\ UNCHANGED <<ws, viewport_height_per_width, main_node, hovering, viewport_lock,
                   mouse_down, button, hit, poisoned, panicked, resolved, pc, lock>>

\* an image above a leaf of the application whose handle_event panics on a click
InitPanic == UiNew(ColumnWidgets(DefaultHandler, PanicHandler), R(1))

NextPanic ==
    \/ Next
    \/ DrawFails
    \/ RebuildFails
    \/ \E value \in Ratios : SetViewportFails(value)
    \/ \E cursor \in Cursors, down \in BOOLEAN : SetCursorFails(cursor, down)

SpecPanic == InitPanic /\ [][NextPanic]_vars

\* the resolution of bar layouts: the engine built on a bar of leaves
InitLayout ==
    \/ \E state \in LayoutScenarios, ratio \in Ratios : UiNew(state, ratio)
    \/ \E state \in StyledScenarios : UiNew(state, R(1))

NextLayout ==
    \/ Draw
    \/ Rebuild

SpecLayout == InitLayout /\ [][NextLayout]_vars

\* the resolution of terminal nodes: the engine built on one widget of shapes
InitTree == \E state \in LeafScenarios \cup EmptyListScenarios : UiNew(state, R(1))

SpecTree == InitTree /\ [][NextLayout]_vars

\* hit-testing: the engine built on a placed leaf, drawn and given cursor samples
InitHit == \E state \in HitScenarios : UiNew(state, R(1))

NextHit ==
    \/ Draw
    \/ \E cursor \in HitCursors, down \in BOOLEAN : SetCursor(cursor, down)

SpecHit == InitHit /\ [][NextHit]_vars

\* drawing again and again: the engine built on labels whose text the
\* application has or has not set since Label::new, and drawn from then on
InitStale == \E state \in StaleScenarios, ratio \in Ratios : UiNew(state, ratio)

\* the positions of the tree whose widget would answer needs_rebuild() with true
StalePaths(node, widgets) ==
    {p \in Paths(node) : widget_needs_rebuild(widgets[NodeAt(node, p).state]).answer}

\* the widgets whose signal is pending
Pending(node, widgets) == {NodeAt(node, p).state : p \in StalePaths(node, widgets)}

\* draw() finds nothing to rebuild for and will find nothing from now on
Settled ==
    /\ ~AnyDirty(main_node)
    /\ Pending(main_node, ws) = {}
    /\ last.op = "draw"
    /\ last.builds = 0

\* a draw() would change nothing: the state is settled and the last call was a
\* draw() that followed a draw()
Quiet == Settled /\ last.arg.after_draw

\* draw() is called again and again: WF_vars(Draw), with ENABLED <<Draw>>_vars
\* written as the state predicate it amounts to
DrawnAgain == []<>Quiet \/ []<><<Draw>>_vars

SpecStale == InitStale /\ [][Draw]_vars /\ DrawnAgain

(* ------------------------------------------------------------------ *)
(* The calls made from several threads                                 *)
(*                                                                     *)
(* A call is cut where it takes or gives back the Mutex of main_node   *)
(* and where it reads widget state without holding it. What a thread   *)
(* does while it holds the Mutex is one step. The Mutex of             *)
(* viewport_height_per_width is held for one statement or block only:  *)
(* each of those is one step.                                          *)
(* ------------------------------------------------------------------ *)

Goto(t, at) == pc' = [pc EXCEPT ![t].at = at]

Return(t) == pc' = [pc EXCEPT ![t] = Idle]

\* Mutex::lock of main_node
Acquire(t) ==
    /\ lock = None
    /\ ~poisoned
    /\ lock' = Some(t)

\* the MutexGuard of main_node goes out of scope
Release(t) ==
    /\ lock = Some(t)
    /\ lock' = None

\* ui.rs:73: draw() copies the ratio
DrawViewport(t) ==
    /\ pc[t].at = "idle"
    /\ pc' = [pc EXCEPT ![t] = [Idle EXCEPT !.at = "draw_lock", !.op = "draw",
                                            !.viewport = viewport_height_per_width]]
    /\ UNCHANGED <<ws, viewport_height_per_width, main_node, hovering, viewport_lock,
                   mouse_down, last, button, hit, poisoned, panicked, resolved, lock>>

\* ui.rs:75
DrawLock(t) ==
    /\ pc[t].at = "draw_lock"
    /\ Acquire(t)
    /\ Goto(t, "draw_locked")
    /\ UNCHANGED <<ws, viewport_height_per_width, main_node, hovering, viewport_lock,
                   mouse_down, last, button, hit, poisoned, panicked, resolved>>

\* ui.rs:77-87
DrawBody(t) ==
    /\ pc[t].at = "draw_locked"
    /\ DrawReturn(DrawLocked(main_node, ws, pc[t].viewport), pc[t].viewport)
    /\ Release(t)
    /\ Return(t)
    /\ UNCHANGED <<viewport_height_per_width, hovering, viewport_lock, mouse_down, button, hit,
                   poisoned, panicked>>

\* ui.rs:52: rebuild() copies the ratio, called by the application or from
\* set_viewport_height_per_width (ui.rs:103)
RebuildViewport(t) ==
    /\ pc[t].at \in {"idle", "rebuild"}
    /\ pc' = [pc EXCEPT ![t] =
                 [Idle EXCEPT !.at = "rebuild_new",
                              !.op = IF pc[t].at = "idle" THEN "rebuild" ELSE pc[t].op,
                              !.value = pc[t].value,
                              !.viewport = viewport_height_per_width]]
    /\ UNCHANGED <<ws, viewport_height_per_width, main_node, hovering, viewport_lock,
                   mouse_down, last, button, hit, poisoned, panicked, resolved, lock>>

\* ui.rs:59, the assigned value: Rust evaluates the right operand of an
\* assignment before its place expression, so Node::new runs before lock()
RebuildNew(t) ==
    /\ pc[t].at = "rebuild_new"
    /\ pc' = [pc EXCEPT ![t].at = "rebuild_lock",
                        ![t].tree = NodeNew(ws, Root, pc[t].viewport, Center),
                        ![t].widgets = ws]
    /\ UNCHANGED <<ws, viewport_height_per_width, main_node, hovering, viewport_lock,
                   mouse_down, last, button, hit, poisoned, panicked, resolved, lock>>

\* ui.rs:59, the place expression: self.main_node.lock().unwrap()
RebuildLock(t) ==
    /\ pc[t].at = "rebuild_lock"
    /\ Acquire(t)
    /\ Goto(t, "rebuild_locked")
    /\ UNCHANGED <<ws, viewport_height_per_width, main_node, hovering, viewport_lock,
                   mouse_down, last, button, hit, poisoned, panicked, resolved>>

\* ui.rs:59, the assignment, and the guard dropped at the end of the statement
RebuildAssign(t) ==
    /\ pc[t].at = "rebuild_locked"
    /\ RebuildStore(pc[t].tree, pc[t].widgets, pc[t].viewport, pc[t].op, pc[t].value)
    /\ Release(t)
    /\ Return(t)
    /\ UNCHANGED <<ws, viewport_height_per_width, hovering, viewport_lock, mouse_down, button, hit,
                   poisoned, panicked>>

\* ui.rs:92-100: the block that holds the Mutex of viewport_height_per_width
SetViewportStore(t, value) ==
    /\ pc[t].at = "idle"
    /\ IF ViewportChanged(viewport_height_per_width, value)
       THEN /\ viewport_height_per_width' = value
            /\ pc' = [pc EXCEPT ![t] = [Idle EXCEPT !.at = "rebuild",
                                                    !.op = "set_viewport_height_per_width",
                                                    !.value = value]]
            /\ UNCHANGED last
       ELSE /\ last' = Returned("set_viewport_height_per_width", value, <<>>, 0, <<>>)
            /\ UNCHANGED <<viewport_height_per_width, pc>>
    /\ UNCHANGED <<ws, main_node, hovering, viewport_lock, mouse_down, button, hit,
                   poisoned, panicked, resolved, lock>>

\* ui.rs:112
SetCursorLock(t, cursor, down) ==
    /\ pc[t].at = "idle"
    /\ Acquire(t)
    /\ pc' = [pc EXCEPT ![t] = [Idle EXCEPT !.at = "set_cursor_locked", !.op = "set_cursor",
                                            !.cursor = cursor, !.down = down]]
    /\ UNCHANGED <<ws, viewport_height_per_width, main_node, hovering, viewport_lock,
                   mouse_down, last, button, hit, poisoned, panicked, resolved>>

\* ui.rs:113-117
SetCursorBody(t) ==
    /\ pc[t].at = "set_cursor_locked"
    /\ SetCursorReturn(SetCursorLocked(main_node, ws, mouse_down, pc[t].cursor, pc[t].down),
                       pc[t].cursor, pc[t].down)
    /\ mouse_down' = pc[t].down
    /\ button' = pc[t].down
    /\ Release(t)
    /\ Return(t)
    /\ UNCHANGED <<viewport_height_per_width, hovering, viewport_lock, resolved>>

\* a button alone
ButtonWidgets == (Root :> ImageButton("normal", "hovered", R(1)))

ConcScenarios == {ButtonWidgets}

ConcCursors == {None, Some(<<Q(-1, 4), R(0)>>)}

InitConc == \E state \in ConcScenarios : UiNew(state, R(1))

NextConc ==
    \E t \in Threads :
        \/ DrawViewport(t)
        \/ DrawLock(t)
        \/ DrawBody(t)
        \/ RebuildViewport(t)
        \/ RebuildNew(t)
        \/ RebuildLock(t)
        \/ RebuildAssign(t)
        \/ \E value \in Ratios : SetViewportStore(t, value)
        \/ \E cursor \in ConcCursors, down \in BOOLEAN : SetCursorLock(t, cursor, down)
        \/ SetCursorBody(t)

SpecConc == InitConc /\ [][NextConc]_vars

(* ------------------------------------------------------------------ *)
(* The two Mutexes                                                     *)
(*                                                                     *)
(* The same calls, cut also where a thread takes the Mutex of          *)
(* viewport_height_per_width: lock() is one step, which waits until    *)
(* the Mutex is free, and what the thread does until the guard is      *)
(* dropped is the next.                                                *)
(* ------------------------------------------------------------------ *)

\* Mutex::lock of viewport_height_per_width
AcquireViewport(t) ==
    /\ viewport_lock = None
    /\ viewport_lock' = Some(t)

\* the MutexGuard of viewport_height_per_width goes out of scope
ReleaseViewport(t) ==
    /\ viewport_lock = Some(t)
    /\ viewport_lock' = None

\* ui.rs:73: self.viewport_height_per_width.lock()
DrawViewportLock(t) ==
    /\ pc[t].at = "idle"
    /\ AcquireViewport(t)
    /\ pc' = [pc EXCEPT ![t] = [Idle EXCEPT !.at = "draw_viewport", !.op = "draw"]]
    /\ UNCHANGED <<ws, viewport_height_per_width, main_node, hovering, mouse_down, last,
                   button, hit, poisoned, panicked, resolved, lock>>

\* ui.rs:73: .unwrap().clone(), the guard dropped at the end of the statement
DrawViewportCopy(t) ==
    /\ pc[t].at = "draw_viewport"
    /\ pc' = [pc EXCEPT ![t].at = "draw_lock", ![t].viewport = viewport_height_per_width]
    /\ ReleaseViewport(t)
    /\ UNCHANGED <<ws, viewport_height_per_width, main_node, hovering, mouse_down, last,
                   button, hit, poisoned, panicked, resolved, lock>>

\* ui.rs:52: self.viewport_height_per_width.lock(), in a rebuild() called by the
\* application or from set_viewport_height_per_width (ui.rs:103)
RebuildViewportLock(t) ==
    /\ pc[t].at \in {"idle", "rebuild"}
    /\ AcquireViewport(t)
    /\ pc' = [pc EXCEPT ![t] =
                 [Idle EXCEPT !.at = "rebuild_viewport",
                              !.op = IF pc[t].at = "idle" THEN "rebuild" ELSE pc[t].op,
                              !.value = pc[t].value]]
    /\ UNCHANGED <<ws, viewport_height_per_width, main_node, hovering, mouse_down, last,
                   button, hit, poisoned, panicked, resolved, lock>>

\* ui.rs:52: .unwrap().clone(), the guard dropped at the end of the statement
RebuildViewportCopy(t) ==
    /\ pc[t].at = "rebuild_viewport"
    /\ pc' = [pc EXCEPT ![t].at = "rebuild_new", ![t].viewport = viewport_height_per_width]
    /\ ReleaseViewport(t)
    /\ UNCHANGED <<ws, viewport_height_per_width, main_node, hovering, mouse_down, last,
                   button, hit, poisoned, panicked, resolved, lock>>

\* ui.rs:93: self.viewport_height_per_width.lock()
SetViewportLock(t, value) ==
    /\ pc[t].at = "idle"
    /\ AcquireViewport(t)
    /\ pc' = [pc EXCEPT ![t] = [Idle EXCEPT !.at = "set_viewport",
                                            !.op = "set_viewport_height_per_width",
                                            !.value = value]]
    /\ UNCHANGED <<ws, viewport_height_per_width, main_node, hovering, mouse_down, last,
                   button, hit, poisoned, panicked, resolved, lock>>

\* ui.rs:92-104 as it would be with rebuild() called inside the block
SetViewportBlockRebuilding(t) ==
    /\ pc[t].at = "set_viewport"
    /\ viewport_height_per_width' = pc[t].value
    /\ pc' = [pc EXCEPT ![t].at = "rebuild_lock",
                        ![t].viewport = pc[t].value,
                        ![t].tree = NodeNew(ws, Root, pc[t].value, Center),
                        ![t].widgets = ws]
    /\ UNCHANGED <<ws, main_node, hovering, mouse_down, last, button, hit, poisoned,
                   panicked, resolved, lock, viewport_lock>>

\* ui.rs:94-100: the rest of the block, the guard dropped at its end, and the
\* return at ui.rs:102 when the ratio has not changed
SetViewportBlock(t) ==
    /\ pc[t].at = "set_viewport"
    /\ IF ViewportChanged(viewport_height_per_width, pc[t].value)
       THEN /\ viewport_height_per_width' = pc[t].value
            /\ Goto(t, "rebuild")
            /\ UNCHANGED last
       ELSE /\ last' = Returned("set_viewport_height_per_width", pc[t].value, <<>>, 0, <<>>)
            /\ Return(t)
            /\ UNCHANGED viewport_height_per_width
    /\ ReleaseViewport(t)
    /\ UNCHANGED <<ws, main_node, hovering, mouse_down, button, hit,
                   poisoned, panicked, resolved, lock>>

\* the steps of thread t that begin a call
Begin(t) ==
    \/ DrawViewportLock(t) /\ pc[t].at = "idle"
    \/ RebuildViewportLock(t) /\ pc[t].at = "idle"
    \/ \E value \in Ratios : SetViewportLock(t, value)
    \/ \E cursor \in ConcCursors : SetCursorLock(t, cursor, FALSE)

\* the steps of thread t that wait for a Mutex inside a call
Wait(t) ==
    \/ DrawLock(t)
    \/ RebuildViewportLock(t) /\ pc[t].at = "rebuild"
    \/ RebuildLock(t)

\* the steps of thread t that wait for nothing
Proceed(t) ==
    \/ DrawViewportCopy(t)
    \/ DrawBody(t)
    \/ RebuildViewportCopy(t)
    \/ RebuildNew(t)
    \/ RebuildAssign(t)
    \/ SetViewportBlock(t)
    \/ SetCursorBody(t)

NextLocks == \E t \in Threads : Begin(t) \/ Wait(t) \/ Proceed(t)

InitLocks == UiNew(ButtonWidgets, R(1))

SpecLocks == InitLocks /\ [][NextLocks]_vars

(* ------------------------------------------------------------------ *)
(* Properties                                                          *)
(* ------------------------------------------------------------------ *)

\* L_1 * ... * L_k for the child links on the path, starting from acc
RECURSIVE PathMatrix(_, _, _)
PathMatrix(node, path, acc) ==
    IF path = <<>> THEN acc
    ELSE PathMatrix(node.children[Head(path) + 1][2], Tail(path),
                    MatMul(acc, node.children[Head(path) + 1][1]))

\* the cursor point lies on a shape of the node at path, by the absolute transform
CursorHits(node, path, point) ==
    \E i \in 1..Len(NodeAt(node, path).shapes) :
        hit_test([NodeAt(node, path).shapes[i] EXCEPT
                     !.matrix = MatMul(PathMatrix(node, path, identity), @)],
                 point)

SampleHits(path) ==
    /\ last.arg.cursor # None
    /\ CursorHits(main_node, path, last.arg.cursor[1])

\* how many times handle_event was called in the last pass for the node at path
\* with this event and child_num
Calls(path, event, child_num) ==
    Cardinality({i \in 1..Len(last.calls) : last.calls[i] = Call(path, event, child_num)})

\* C1: in a set_cursor pass a node's widget is sent MouseClick exactly when the
\* cursor hits a shape of the node and the button was down in the previous sample
\* and is up in this one.
C1_ClickOnRelease ==
    last.op = "set_cursor" =>
        \A path \in Paths(main_node) :
            Calls(path, "MouseClick", None) =
                IF SampleHits(path) /\ last.arg.was_down /\ ~last.arg.down THEN 1 ELSE 0

\* C2: once a rebuild() has resolved the new tree from the widgets, no set_cursor()
\* and no draw() of another thread runs before that tree has replaced the old one.
C2_RebuildAtomic ==
    [][\A t \in Threads : \A u \in Threads \ {t} :
          pc[t].at = "rebuild_lock" =>
              ~(pc[u].at \in {"draw_locked", "set_cursor_locked"} /\ pc'[u].at = "idle")]_vars

\* C3: a draw() that finds a dirty node or a stale widget replaces the whole tree
\* by one resolved from the current widgets and the stored ratio and flattens
\* that one; after every draw() no node is dirty.
C3_DrawRebuildsWhenStale ==
    last.op = "draw" =>
        /\ ~AnyDirty(main_node)
        /\ (last.arg.dirty \/ last.arg.stale) =>
              /\ main_node = NodeNew(ws, Root, viewport_height_per_width, Center)
              /\ last.builds = NodeCount(main_node)
              /\ last.shapes = build_shapes(main_node)

C3_Witness ==
    /\ last.op = "draw"
    /\ last.arg.dirty
    /\ ~last.arg.stale
    /\ last.builds > 1
    /\ resolved.ws # BasicWidgets

\* C4: a draw() directly after a draw(), with no widget reporting
\* needs_rebuild(), returns the same shape list and calls no build_layout.
C4_DrawIdempotent ==
    [][(last.op = "draw" /\ last'.op = "draw" /\ ~AnyStale(main_node, ws)) =>
            (last'.shapes = last.shapes /\ last'.builds = 0)]_vars

C4_Witness ==
    /\ last.op = "draw"
    /\ last.arg.after_draw
    /\ ~last.arg.stale
    /\ Len(last.shapes) > 1

\* the bar layout the node was resolved from is horizontal, without
\* vertical_align, and no child collapses or has padding
PlainHorizontalBar(layout) ==
    /\ layout.tag = "HorizontalBar"
    /\ ~layout.vertical_align
    /\ \A i \in 1..Len(layout.children) :
          /\ ~layout.children[i].collapse
          /\ layout.children[i].padding_top = R(0)
          /\ layout.children[i].padding_right = R(0)
          /\ layout.children[i].padding_bottom = R(0)
          /\ layout.children[i].padding_left = R(0)

RECURSIVE WeightBefore(_, _)
WeightBefore(children, i) ==
    IF i = 1 THEN 0 ELSE children[i - 1].weight + WeightBefore(children, i - 1)

\* translate(-1 + (2 * (w_1 + ... + w_(i-1)) + w_i) / W, 0) * scale_wh(w_i / W, 1)
TileMatrix(children, i) ==
    MatMul(translate(RAdd(R(-1), Q(2 * WeightBefore(children, i) + children[i].weight,
                                   WeightSum(children))),
                     R(0)),
           scale_wh(Q(children[i].weight, WeightSum(children)), R(1)))

\* C5: the children of a horizontal bar without vertical_align, collapse and
\* padding tile its width in list order by weight, for each bar alignment; the
\* two-leaf bar of the test is drawn as translate(-0.5,0)*scale_wh(0.5,1) and
\* translate(0.5,0)*scale_wh(0.5,1).
C5_HorizontalBarTiles ==
    /\ \A p \in Paths(main_node) :
          (/\ resolved.ws[NodeAt(main_node, p).state].kind = "Custom"
           /\ PlainHorizontalBar(resolved.ws[NodeAt(main_node, p).state].layout)) =>
              /\ Len(NodeAt(main_node, p).children) =
                    Len(resolved.ws[NodeAt(main_node, p).state].layout.children)
              /\ \A i \in 1..Len(NodeAt(main_node, p).children) :
                    NodeAt(main_node, p).children[i][1] =
                        TileMatrix(resolved.ws[NodeAt(main_node, p).state].layout.children, i)
    /\ (last.op = "draw" /\ resolved.ws = SplitTwoWidgets /\ resolved.ratio = R(1)) =>
          last.shapes =
              <<Image(MatMul(translate(Q(-1, 2), R(0)), scale_wh(Q(1, 2), R(1))), ""),
                Image(MatMul(translate(Q(1, 2), R(0)), scale_wh(Q(1, 2), R(1))), "")>>

C5_Witness ==
    /\ last.op = "draw"
    /\ PlainHorizontalBar(resolved.ws[Root].layout)
    /\ resolved.ws[Root].layout.alignment = "Right"
    /\ Len(main_node.children) = 3
    /\ resolved.ws[Root].layout.children[1].weight = 1
    /\ resolved.ws[Root].layout.children[2].weight = MaxWeight
    /\ main_node.children[3][1] = TileMatrix(resolved.ws[Root].layout.children, 3)

\* the shapes of the subtree in depth-first order, each with the product of the
\* child links from the root (acc) applied to its own transform
RECURSIVE AbsoluteShapes(_, _)

RECURSIVE AbsoluteChildrenShapes(_, _)
AbsoluteChildrenShapes(children, acc) ==
    IF children = <<>> THEN <<>>
    ELSE AbsoluteShapes(Head(children)[2], MatMul(acc, Head(children)[1]))
         \o AbsoluteChildrenShapes(Tail(children), acc)

AbsoluteShapes(node, acc) ==
    AbsoluteChildrenShapes(node.children, acc)
    \o [i \in 1..Len(node.shapes) |->
            [node.shapes[i] EXCEPT !.matrix = MatMul(acc, @)]]

\* C6: every shape draw() returns carries L_1 * ... * L_k * S; a root that
\* reports Shapes has them returned unchanged.
C6_AbsoluteTransforms ==
    last.op = "draw" =>
        /\ last.shapes = AbsoluteShapes(main_node, identity)
        /\ main_node.children = <<>> => last.shapes = main_node.shapes

C6_Witness ==
    /\ last.op = "draw"
    /\ \E p \in Paths(main_node) :
          /\ Len(p) = 2
          /\ NodeAt(main_node, p).shapes # <<>>
          /\ PathMatrix(main_node, p, identity) # identity
          /\ NodeAt(main_node, p).shapes[1].matrix # identity

\* C7: for set_cursor(None, d) every node sends MouseLeaveEvent to its own
\* widget, and no node originates MouseEnterEvent or MouseClick.
C7_CursorOutside ==
    (last.op = "set_cursor" /\ last.arg.cursor = None) =>
        \A path \in Paths(main_node) :
            /\ Calls(path, "MouseLeaveEvent", None) = 1
            /\ Calls(path, "MouseEnterEvent", None) = 0
            /\ Calls(path, "MouseClick", None) = 0

C7_Witness ==
    /\ last.op = "set_cursor"
    /\ last.arg.cursor = None
    /\ last.arg.was_down
    /\ ~last.arg.down
    /\ \E id \in DOMAIN ws : ws[id].kind = "ImageButton"
    /\ Cardinality(Paths(main_node)) > 2

\* C8: in every set_cursor pass each node sends exactly one hover event to its
\* own widget: MouseEnterEvent if the cursor hits one of its shapes,
\* MouseLeaveEvent otherwise, whatever the earlier passes were.
C8_HoverEverySample ==
    last.op = "set_cursor" =>
        \A path \in Paths(main_node) :
            /\ Calls(path, "MouseEnterEvent", None) = (IF SampleHits(path) THEN 1 ELSE 0)
            /\ Calls(path, "MouseLeaveEvent", None) = (IF SampleHits(path) THEN 0 ELSE 1)

\* the same sample given twice in a row over an ImageButton: the button, hovered
\* since the pass before, is sent MouseEnterEvent again
C8_Witness ==
    /\ last.op = "set_cursor"
    /\ last.arg.repeat
    /\ \E path \in Paths(main_node) :
          /\ SampleHits(path)
          /\ Calls(path, "MouseEnterEvent", None) = 1
          /\ ws[NodeAt(main_node, path).state].kind = "ImageButton"
          /\ ws[NodeAt(main_node, path).state].hovered

\* C9: set_viewport_height_per_width(v) with v the stored ratio calls no
\* build_layout and leaves ratio, tree and dirty flags alone; with another v it
\* stores v and replaces the tree by one resolved with ratio v.
C9_ViewportChange ==
    [][last'.op = "set_viewport_height_per_width" =>
          IF REq(last'.arg, viewport_height_per_width)
          THEN /\ last'.builds = 0
               /\ UNCHANGED <<viewport_height_per_width, main_node>>
          ELSE /\ viewport_height_per_width' = last'.arg
               /\ main_node' = NodeNew(ws, Root, last'.arg, Center)
               /\ last'.builds = NodeCount(main_node')]_vars

C9_Witness ==
    /\ last.op = "set_viewport_height_per_width"
    /\ last.builds = 0
    /\ AnyDirty(main_node)
    /\ main_node # NodeNew(ws, Root, viewport_height_per_width, Center)

\* C10: widget() changes nothing in the engine; with no node dirty and no widget
\* stale draw() returns the shapes of the resolution the tree was made by,
\* whatever the application changed since; the draw() after a rebuild() shows
\* the widgets as they are.
C10_MutationNeedsRebuild ==
    [][/\ last'.op = "widget" =>
            UNCHANGED <<main_node, viewport_height_per_width, mouse_down, hovering>>
       /\ (last'.op = "draw" /\ ~AnyDirty(main_node) /\ ~AnyStale(main_node, ws)) =>
            /\ last'.shapes = build_shapes(NodeNew(resolved.ws, Root, resolved.ratio, Center))
            /\ main_node' = main_node
       /\ (last.op = "rebuild" /\ last'.op = "draw") =>
            last'.shapes = build_shapes(NodeNew(ws', Root, viewport_height_per_width, Center))
      ]_vars

\* a draw() that returned shapes the widgets no longer describe
C10_Witness ==
    /\ last.op = "draw"
    /\ last.arg.after_draw
    /\ last.builds = 0
    /\ last.shapes # build_shapes(NodeNew(ws, Root, viewport_height_per_width, Center))

\* C11: is_hovering() returns true exactly when the most recent set_cursor sample
\* hit a shape of some node, and false when no sample was given yet, when the
\* last sample was None or when it hit nothing.
C11_IsHovering ==
    last.op = "is_hovering" => (last.arg <=> hit)

\* the layout the node at path was resolved from, when its widget is an
\* application widget
IsCustomAt(path) == resolved.ws[NodeAt(main_node, path).state].kind = "Custom"

LayoutAt(path) == resolved.ws[NodeAt(main_node, path).state].layout

IsBar(layout) == layout.tag \in {"HorizontalBar", "VerticalBar"}

BarVertical(layout) == layout.tag = "VerticalBar"

BarOtherAlign(layout) ==
    IF BarVertical(layout) THEN layout.horizontal_align ELSE layout.vertical_align

\* the bars of the tree
BarPaths == {p \in Paths(main_node) : IsCustomAt(p) /\ IsBar(LayoutAt(p))}

\* the children nodes of a node, without their matrices
NodesOf(node) == [i \in 1..Len(node.children) |-> node.children[i][2]]

\* required_effective_perp_percentage of the bar the node was resolved as
BarReqPerp(layout, node) ==
    RequiredEffectivePerpPercentage(layout.children, NodesOf(node), BarVertical(layout),
                                    WeightSumInverse(layout.children), BarOtherAlign(layout))

\* half the advance of flow_current_border_position for child i of the bar
Occupied(layout, node, i) ==
    FlowHalfStep(layout.children[i], node.children[i][2], BarVertical(layout),
                 WeightSumInverse(layout.children), BarReqPerp(layout, node))

RECURSIVE OccupiedSum(_, _, _)
OccupiedSum(layout, node, i) ==
    IF i = 0 THEN R(0)
    ELSE RAdd(OccupiedSum(layout, node, i - 1), Occupied(layout, node, i))

NoneCollapses(layout) == \A i \in 1..Len(layout.children) : ~layout.children[i].collapse

\* C12: in a bar whose children all have collapse = false the flow-axis
\* fractions the children occupy sum to exactly 1, for any weights, paddings and
\* either value of the perpendicular-align flag.
C12_OccupiedSumIsOne ==
    \A p \in BarPaths :
        NoneCollapses(LayoutAt(p)) =>
            OccupiedSum(LayoutAt(p), NodeAt(main_node, p), Len(LayoutAt(p).children)) = R(1)

ZeroPadding(child) ==
    /\ child.padding_top = R(0)
    /\ child.padding_right = R(0)
    /\ child.padding_bottom = R(0)
    /\ child.padding_left = R(0)

AllCollapseNoPadding(layout) ==
    \A i \in 1..Len(layout.children) :
        layout.children[i].collapse /\ ZeroPadding(layout.children[i])

\* where, on the flow axis of the bar, the visible content of a child ends (far)
\* or starts: the edge of the child's box moved inward by the child's empty
\* margin on that side, through the child's matrix
ContentEdge(matrix, node, vertical, far) ==
    IF vertical
    THEN MatVec(matrix, <<R(0),
                          IF far THEN RSub(R(1), node.empty_top)
                                 ELSE RAdd(R(-1), node.empty_bottom),
                          R(1)>>)[2]
    ELSE MatVec(matrix, <<IF far THEN RSub(R(1), node.empty_right)
                                 ELSE RAdd(R(-1), node.empty_left),
                          R(0), R(1)>>)[1]

ContentsTouch(node, vertical, i) ==
    ContentEdge(node.children[i][1], node.children[i][2], vertical, TRUE)
        = ContentEdge(node.children[i + 1][1], node.children[i + 1][2], vertical, FALSE)

\* C13: in a bar whose children all have collapse = true and zero padding the
\* visible contents of adjacent children touch on the flow axis, whatever the
\* children's empty margins are and however they are split between the two sides.
C13_CollapsedContentsTouch ==
    \A p \in BarPaths :
        AllCollapseNoPadding(LayoutAt(p)) =>
            \A i \in 1..(Len(NodeAt(main_node, p).children) - 1) :
                ContentsTouch(NodeAt(main_node, p), BarVertical(LayoutAt(p)), i)

\* C14: after a rebuild() that ran alone the tree is the tree Ui::new builds from
\* the current widgets and the stored ratio, one build_layout per node, and no
\* node is dirty, whatever calls came before.
C14_RebuildMatchesNew ==
    last.op = "rebuild" =>
        /\ main_node = NodeNew(ws, Root, viewport_height_per_width, Center)
        /\ ~AnyDirty(main_node)
        /\ last.builds = NodeCount(main_node)

\* a rebuild() after the application changed a label's text and a cursor pass
\* left a button hovered, at a ratio set after construction
C14_Witness ==
    /\ last.op = "rebuild"
    /\ viewport_height_per_width = R(2)
    /\ \E p \in Paths(main_node) :
          /\ ws[NodeAt(main_node, p).state].kind = "ImageButton"
          /\ ws[NodeAt(main_node, p).state].hovered
          /\ NodeAt(main_node, p).shapes[1].name = "hovered"
    /\ \E id \in DOMAIN ws : ws[id].kind = "Label" /\ ws[id].text = "xy"

\* C15: once a handle_event has panicked during a set_cursor pass, that call
\* and every later draw(), set_cursor() and rebuild() fail, and the tree is
\* never changed, flattened or dispatched on again.
C15_PanicIsFatal ==
    [][panicked' =>
          /\ last'.op \in {"draw", "set_cursor", "rebuild"} => last'.failed
          /\ panicked => /\ main_node' = main_node
                         /\ last'.shapes = <<>>
                         /\ last'.calls = <<>>]_vars

\* a draw() that failed after the leaf's handle_event panicked on a click
C15_Witness ==
    /\ panicked
    /\ last.op = "draw"
    /\ last.failed

\* the shapes of the tree: the position of a node and the number of one of the
\* shapes its build_layout returned
DrawEntries ==
    UNION {{<<p, k>> : k \in 1..Len(NodeAt(main_node, p).shapes)} : p \in Paths(main_node)}

\* depth-first, children before the node: p is below q, or p branches off to an
\* earlier child than q does
PostOrderBefore(p, q) ==
    \/ Len(q) < Len(p) /\ SubSeq(p, 1, Len(q)) = q
    \/ \E i \in 1..Len(p) :
           /\ i <= Len(q)
           /\ SubSeq(p, 1, i - 1) = SubSeq(q, 1, i - 1)
           /\ p[i] < q[i]

DrawnBefore(e, f) ==
    IF e[1] = f[1] THEN e[2] < f[2] ELSE PostOrderBefore(e[1], f[1])

DrawPosition(e) == 1 + Cardinality({f \in DrawEntries : DrawnBefore(f, e)})

\* the shape of an entry as the viewport sees it
DrawnShape(e) ==
    [NodeAt(main_node, e[1]).shapes[e[2]] EXCEPT
        !.matrix = MatMul(PathMatrix(main_node, e[1], identity), @)]

\* C16: the list draw() returns holds every shape of every node exactly once, in
\* depth-first order: the subtrees of a node's children in child-list order, then
\* the node's own shapes in the order build_layout returned them.
C16_DrawOrder ==
    last.op = "draw" =>
        /\ Len(last.shapes) = Cardinality(DrawEntries)
        /\ \A e \in DrawEntries : last.shapes[DrawPosition(e)] = DrawnShape(e)

\* a draw() of a tree two levels deep where a node has several shapes and the
\* shapes of two children of a bar are told apart
C16_Witness ==
    /\ last.op = "draw"
    /\ \E p \in Paths(main_node) : Len(p) = 2 /\ Len(NodeAt(main_node, p).shapes) >= 2
    /\ \E e, f \in DrawEntries : e[1] = <<0, 0>> /\ f[1] = <<0, 1>>
                                   /\ DrawnShape(e) # DrawnShape(f)

\* q is the position of a node below the node at p
Below(q, p) == Len(p) < Len(q) /\ SubSeq(q, 1, Len(p)) = p

Hover(call) == call.child_num = None /\ call.event \in {"MouseEnterEvent", "MouseLeaveEvent"}

\* two handle_event calls on the widget of one node come in this order: events
\* forwarded by an earlier child, events forwarded by a later child, the node's
\* hover event, the node's click
InNodeOrder(first, second) ==
    IF first.child_num # None
    THEN second.child_num # None => first.child_num[1] <= second.child_num[1]
    ELSE /\ Hover(first)
         /\ second.child_num = None
         /\ second.event = "MouseClick"

\* C17: in a set_cursor pass every handle_event call on a node below a node n
\* comes before every call on n, and the calls on n are the events forwarded by
\* its children grouped by child in child-list order, then its hover event, then
\* its click.
C17_DispatchOrder ==
    last.op = "set_cursor" =>
        \A i, j \in 1..Len(last.calls) :
            /\ Below(last.calls[j].path, last.calls[i].path) => j < i
            /\ (i < j /\ last.calls[i].path = last.calls[j].path)
                   => InNodeOrder(last.calls[i], last.calls[j])

\* a pass where the root is sent events forwarded by its first child, then by its
\* second child, then its own hover event, and where a leaf is sent its hover
\* event and then a click
C17_Witness ==
    /\ last.op = "set_cursor"
    /\ \E i, j, k \in 1..Len(last.calls) :
           /\ i < j /\ j < k
           /\ last.calls[i].path = <<>> /\ last.calls[i].child_num = Some(0)
           /\ last.calls[j].path = <<>> /\ last.calls[j].child_num = Some(1)
           /\ last.calls[k].path = <<>> /\ Hover(last.calls[k])
    /\ \E i \in 1..Len(last.calls) :
           /\ last.calls[i].path # <<>>
           /\ last.calls[i].child_num = None
           /\ last.calls[i].event = "MouseClick"

\* the handle_event calls of the last pass on the widget of the node at path, in
\* the order they were made
CallsAt(path) ==
    LET At(call) == call.path = path IN SelectSeq(last.calls, At)

\* the events the node at path was sent on behalf of its child number num
ForwardedFrom(path, num) ==
    LET From(call) == call.path = path /\ call.child_num = Some(num)
        calls == SelectSeq(last.calls, From)
    IN  [i \in 1..Len(calls) |-> calls[i].event]

\* what the widget's handler answered to a call
OutcomeOf(widget, call) == handle_event(widget, call.event, call.child_num).outcome

\* what the claim has a node pass to its parent for a sequence of calls: for each
\* call the events_for_parent of its outcome and then, if propagate_to_parent,
\* the event itself
RECURSIVE Passed(_, _)
Passed(widget, calls) ==
    IF calls = <<>> THEN <<>>
    ELSE OutcomeOf(widget, Head(calls)).events_for_parent
         \o (IF OutcomeOf(widget, Head(calls)).propagate_to_parent
             THEN <<Head(calls).event>> ELSE <<>>)
         \o Passed(widget, Tail(calls))

Parent(path) == SubSeq(path, 1, Len(path) - 1)

OccupiedTotal(layout, node) == OccupiedSum(layout, node, Len(layout.children))

\* the matrix of the first child of the bar when the near border of its
\* footprint is at start on the flow axis
FirstChildMatrix(layout, node, start) ==
    ChildMatrix(layout.children[1], BarVertical(layout), WeightSumInverse(layout.children),
                ScaleRatio(layout.children[1], node.children[1][2], BarVertical(layout),
                           BarReqPerp(layout, node)),
                RAdd(start, Occupied(layout, node, 1)))

\* -1 for Left and Top, -T for Center, 1 - 2T for Right and Bottom
StartTopNear(alignment, total) ==
    CASE alignment \in {"Left", "Top"}     -> R(-1)
      [] alignment = "Center"              -> RNeg(total)
      [] alignment \in {"Right", "Bottom"} -> RSub(R(1), RMul(R(2), total))

\* -1 for Left and Bottom, -T for Center, 1 - 2T for Right and Top
StartBottomNear(alignment, total) ==
    CASE alignment \in {"Left", "Bottom"} -> R(-1)
      [] alignment = "Center"             -> RNeg(total)
      [] alignment \in {"Right", "Top"}   -> RSub(R(1), RMul(R(2), total))

\* C19 as stated: the near border of the first child of a bar is at -1 for Left
\* (horizontal) and Top (vertical), at -T for Center, and at 1 - 2T for Right
\* (horizontal) and Bottom (vertical).
C19_FlowStartTopNear ==
    \A p \in BarPaths :
        NodeAt(main_node, p).children[1][1] =
            FirstChildMatrix(LayoutAt(p), NodeAt(main_node, p),
                             StartTopNear(LayoutAt(p).alignment,
                                          OccupiedTotal(LayoutAt(p), NodeAt(main_node, p))))

\* C19, amended: the near border of the first child of a bar is at -1 for Left
\* (horizontal) and Bottom (vertical), at -T for Center, and at 1 - 2T for Right
\* (horizontal) and Top (vertical).
C19_FlowStartBottomNear ==
    \A p \in BarPaths :
        NodeAt(main_node, p).children[1][1] =
            FirstChildMatrix(LayoutAt(p), NodeAt(main_node, p),
                             StartBottomNear(LayoutAt(p).alignment,
                                             OccupiedTotal(LayoutAt(p), NodeAt(main_node, p))))

\* a rebuilt vertical bar aligned to the top whose children leave part of it free
C19_Witness ==
    /\ last.op = "rebuild"
    /\ BarVertical(LayoutAt(<<>>))
    /\ LayoutAt(<<>>).alignment = "Top"
    /\ Len(LayoutAt(<<>>).children) >= 2
    /\ RLt(OccupiedTotal(LayoutAt(<<>>), main_node), R(1))
    /\ main_node.children[1][1] =
           FirstChildMatrix(LayoutAt(<<>>), main_node,
                            RSub(R(1), RMul(R(2), OccupiedTotal(LayoutAt(<<>>), main_node))))

\* the empty margin of a node on an edge
EmptyOn(node, edge) ==
    CASE edge = "top"    -> node.empty_top
      [] edge = "right"  -> node.empty_right
      [] edge = "bottom" -> node.empty_bottom
      [] edge = "left"   -> node.empty_left

PaddingOn(child, edge) ==
    CASE edge = "top"    -> child.padding_top
      [] edge = "right"  -> child.padding_right
      [] edge = "bottom" -> child.padding_bottom
      [] edge = "left"   -> child.padding_left

\* child i's margin minus its padding on an edge
InnerMargin(layout, node, i, edge) ==
    RSub(EmptyOn(node.children[i][2], edge), PaddingOn(layout.children[i], edge))

\* (margin - padding) * weight / sum of weights
SharedMargin(layout, node, i, edge) ==
    RDiv(RMul(InnerMargin(layout, node, i, edge), R(layout.children[i].weight)),
         R(WeightSum(layout.children)))

\* the edge of the bar its first child is laid against, and the opposite one
NearEdge(layout) == IF BarVertical(layout) THEN "bottom" ELSE "left"

FarEdge(layout) == IF BarVertical(layout) THEN "top" ELSE "right"

PerpEdges(layout) == IF BarVertical(layout) THEN {"left", "right"} ELSE {"top", "bottom"}

NonCollapsed(layout) == {i \in 1..Len(layout.children) : ~layout.children[i].collapse}

FirstOf(set) == CHOOSE i \in set : \A j \in set : i <= j

LastOf(set) == CHOOSE i \in set : \A j \in set : j <= i

\* the bar's perpendicular margins are the least inner margin of its children
PerpIsMinimum(layout, node) ==
    \A edge \in PerpEdges(layout) :
        /\ \E i \in 1..Len(layout.children) :
               EmptyOn(node, edge) = InnerMargin(layout, node, i, edge)
        /\ \A i \in 1..Len(layout.children) :
               RGe(InnerMargin(layout, node, i, edge), EmptyOn(node, edge))

\* the flow margins come from the first and the last child that do not collapse
FlowFromNonCollapsed(layout, node) ==
    IF NonCollapsed(layout) = {}
    THEN EmptyOn(node, NearEdge(layout)) = R(0) /\ EmptyOn(node, FarEdge(layout)) = R(0)
    ELSE /\ EmptyOn(node, NearEdge(layout))
               = SharedMargin(layout, node, FirstOf(NonCollapsed(layout)), NearEdge(layout))
         /\ EmptyOn(node, FarEdge(layout))
               = SharedMargin(layout, node, LastOf(NonCollapsed(layout)), FarEdge(layout))

\* the flow margins come from the first and the last child, and are 0 for one
\* that collapses
FlowFromEdgeChildren(layout, node) ==
    /\ EmptyOn(node, NearEdge(layout))
          = IF layout.children[1].collapse THEN R(0)
            ELSE SharedMargin(layout, node, 1, NearEdge(layout))
    /\ EmptyOn(node, FarEdge(layout))
          = IF layout.children[Len(layout.children)].collapse THEN R(0)
            ELSE SharedMargin(layout, node, Len(layout.children), FarEdge(layout))

\* C20 as stated: a bar's near flow margin is (margin - padding) * weight / sum
\* of weights of its first child with collapse = false, its far flow margin that
\* of its last such child, both 0 when every child collapses, and each of its
\* perpendicular margins is the minimum over its children of margin - padding.
C20_MarginsFromNonCollapsed ==
    \A p \in BarPaths :
        /\ FlowFromNonCollapsed(LayoutAt(p), NodeAt(main_node, p))
        /\ PerpIsMinimum(LayoutAt(p), NodeAt(main_node, p))

\* C20, amended: a bar's near flow margin is (margin - padding) * weight / sum of
\* weights of its first child if that child has collapse = false and 0 otherwise,
\* its far flow margin likewise of its last child, and each of its perpendicular
\* margins is the minimum over its children of margin - padding.
C20_MarginsFromEdgeChildren ==
    \A p \in BarPaths :
        /\ FlowFromEdgeChildren(LayoutAt(p), NodeAt(main_node, p))
        /\ PerpIsMinimum(LayoutAt(p), NodeAt(main_node, p))

\* a rebuilt bar whose first child collapses and whose second child does not and
\* has a margin on the near edge: the bar's near margin is 0
C20_Witness ==
    /\ last.op = "rebuild"
    /\ <<>> \in BarPaths
    /\ Len(LayoutAt(<<>>).children) = 2
    /\ LayoutAt(<<>>).children[1].collapse
    /\ ~LayoutAt(<<>>).children[2].collapse
    /\ SharedMargin(LayoutAt(<<>>), main_node, 2, NearEdge(LayoutAt(<<>>))) # R(0)
    /\ EmptyOn(main_node, NearEdge(LayoutAt(<<>>))) = R(0)
    /\ EmptyOn(main_node, FarEdge(LayoutAt(<<>>))) # R(0)

\* the nodes whose widget returned Layout::Shapes with at least one shape
ShapePaths ==
    {p \in Paths(main_node) : IsCustomAt(p) /\ LayoutAt(p).tag = "Shapes"
                                            /\ LayoutAt(p).shapes # <<>>}

\* the unused fraction of the node's box on an edge, given one shape's box
Unused(box, edge) ==
    CASE edge = "top"    -> RSub(R(1), box.t)
      [] edge = "right"  -> RSub(R(1), box.r)
      [] edge = "bottom" -> RAdd(box.b, R(1))
      [] edge = "left"   -> RAdd(box.l, R(1))

\* value is the minimum over the shapes of the unused fraction on the edge
IsLeastUnused(value, shapes, edge) ==
    /\ \E i \in 1..Len(shapes) : value = Unused(get_bounding_box(shapes[i]), edge)
    /\ \A i \in 1..Len(shapes) : RGe(Unused(get_bounding_box(shapes[i]), edge), value)

\* C21: each empty margin of a terminal node with at least one shape is the
\* minimum over its shapes of the unused fraction on that edge (top = 1 - largest
\* top, right = 1 - largest right, bottom = smallest bottom + 1, left = smallest
\* left + 1), wherever the shapes' boxes lie in the node's [-1,1] box.
C21_TerminalMargins ==
    \A p \in ShapePaths :
        \A edge \in {"top", "right", "bottom", "left"} :
            IsLeastUnused(EmptyOn(NodeAt(main_node, p), edge), NodeAt(main_node, p).shapes,
                          edge)

\* C22: every node of the tree has its four empty margins within [0,2], for
\* bars of any weights, collapse flags and paddings in [0,1] over shapes that lie
\* inside their widget's box.
C22_MarginsInRange ==
    \A p \in Paths(main_node) :
        \A edge \in {"top", "right", "bottom", "left"} :
            /\ RGe(EmptyOn(NodeAt(main_node, p), edge), R(0))
            /\ RGe(R(2), EmptyOn(NodeAt(main_node, p), edge))

\* the layout the widget of the node at path returned when the tree was resolved
\* (which variant it is, and the children it lists, do not depend on the ratio)
ReturnedLayout(path) ==
    build_layout(resolved.ws[NodeAt(main_node, path).state], resolved.ratio, Center)

\* the children a layout lists
ListedChildren(layout) ==
    CASE layout.tag = "AbsolutePositionned" -> layout.list
      [] layout.tag = "Shapes"              -> <<>>
      [] OTHER                              -> layout.children

\* C23 as stated: a node has no children if and only if its widget's
\* build_layout returned Layout::Shapes, whatever layout the widget returns, and
\* a node with shapes has no children.
C23_TerminalIffShapes ==
    \A p \in Paths(main_node) :
        /\ NodeAt(main_node, p).children = <<>> <=> ReturnedLayout(p).tag = "Shapes"
        /\ NodeAt(main_node, p).shapes # <<>> => NodeAt(main_node, p).children = <<>>

\* C23, amended: a node has no children if and only if its widget's build_layout
\* returned Layout::Shapes or an AbsolutePositionned or bar layout with an empty
\* child list, and a node with shapes has no children.
C23_TerminalIffNoChildListed ==
    \A p \in Paths(main_node) :
        /\ NodeAt(main_node, p).children = <<>>
              <=> (\/ ReturnedLayout(p).tag = "Shapes"
                   \/ ListedChildren(ReturnedLayout(p)) = <<>>)
        /\ NodeAt(main_node, p).shapes # <<>> => NodeAt(main_node, p).children = <<>>

\* a rebuilt tree whose root lists two children under an absolute layout: a bar
\* that lists no child and a widget of shapes
C23_Witness ==
    /\ last.op = "rebuild"
    /\ ReturnedLayout(<<>>).tag = "AbsolutePositionned"
    /\ Len(main_node.children) = 2
    /\ ReturnedLayout(<<0>>).tag = "VerticalBar"
    /\ NodeAt(main_node, <<0>>).children = <<>>
    /\ ReturnedLayout(<<1>>).tag = "Shapes"
    /\ NodeAt(main_node, <<1>>).shapes # <<>>

\* the determinant of the linear part of an affine matrix
Det(m) == RSub(RMul(m[1][1], m[2][2]), RMul(m[1][2], m[2][1]))

\* the coordinates (u, v) of the point of the local box that the affine matrix m
\* with non-zero determinant sends to the point
LocalU(m, point) ==
    RDiv(RSub(RMul(RSub(point[1], m[3][1]), m[2][2]), RMul(RSub(point[2], m[3][2]), m[2][1])),
         Det(m))

LocalV(m, point) ==
    RDiv(RSub(RMul(RSub(point[2], m[3][2]), m[1][1]), RMul(RSub(point[1], m[3][1]), m[1][2])),
         Det(m))

Within(x) == RGe(x, R(-1)) /\ RGe(R(1), x)

\* the point lies in the image of [-1,1]x[-1,1] under m, boundary included
InImage(m, point) == Within(LocalU(m, point)) /\ Within(LocalV(m, point))

\* the node at path was counted as hit in the last pass: its widget was sent
\* MouseEnterEvent on its own behalf
CountedAsHit(path) ==
    \E i \in 1..Len(last.calls) : last.calls[i] = Call(path, "MouseEnterEvent", None)

\* C24: in a set_cursor pass a node counts as hit by the cursor point exactly
\* when the point lies inside, boundary included, the image of the unit square
\* under the absolute transform (the product of the matrices on the path and the
\* shape's own, which draw() reports) of one of the node's shapes.
C24_HitIsImage ==
    last.op = "set_cursor" =>
        \A p \in Paths(main_node) :
            CountedAsHit(p) <=>
                /\ last.arg.cursor # None
                /\ \E i \in 1..Len(NodeAt(main_node, p).shapes) :
                       InImage(MatMul(PathMatrix(main_node, p, identity),
                                      NodeAt(main_node, p).shapes[i].matrix),
                               last.arg.cursor[1])

\* no call of any thread is in progress
Quiescent == \A t \in Threads : pc[t].at = "idle"

\* C25: whenever no operation is in progress, the ratio the current tree was
\* resolved with is the stored viewport ratio, also after concurrent calls of
\* set_viewport_height_per_width, rebuild and draw from several threads.
C25_TreeMatchesViewport == Quiescent => resolved.ratio = viewport_height_per_width

\* thread t waits for the Mutex of main_node
WaitsForTree(t) == pc[t].at \in {"draw_lock", "rebuild_lock"}

\* thread t waits for the Mutex of viewport_height_per_width
WaitsForViewport(t) == pc[t].at = "rebuild"

NoHoldAndWait ==
    \A t \in Threads :
        /\ WaitsForTree(t) => viewport_lock # Some(t)
        /\ WaitsForViewport(t) => lock # Some(t)
        /\ ~(lock = Some(t) /\ viewport_lock = Some(t))

\* a thread holds a Mutex exactly between its lock() and the end of the
\* statement or block that holds the guard
LocksFollowCalls ==
    \A t \in Threads :
        /\ lock = Some(t) <=> pc[t].at \in {"draw_locked", "rebuild_locked", "set_cursor_locked"}
        /\ viewport_lock = Some(t) <=>
               pc[t].at \in {"draw_viewport", "rebuild_viewport", "set_viewport"}

\* thread t is inside a call and cannot go on: the Mutex it waits for is held
Blocked(t) ==
    \/ WaitsForTree(t) /\ (lock # None \/ poisoned)
    \/ WaitsForViewport(t) /\ viewport_lock # None

\* the thread, if any, that holds the Mutex thread t waits for
HolderFor(t) == IF WaitsForTree(t) THEN lock ELSE viewport_lock

\* a blocked thread waits for a thread that is not blocked itself
NoWaitingCycle ==
    \A t \in Threads : Blocked(t) => HolderFor(t) # None /\ ~Blocked(HolderFor(t)[1])

\* the steps a call has left at most before it returns
StepsLeft(at) ==
    CASE at = "idle" -> 0
      [] at \in {"draw_locked", "rebuild_locked", "set_cursor_locked"} -> 1
      [] at \in {"draw_lock", "rebuild_lock"} -> 2
      [] at \in {"draw_viewport", "rebuild_new"} -> 3
      [] at = "rebuild_viewport" -> 4
      [] at = "rebuild" -> 5
      [] at = "set_viewport" -> 6

\* every step of a thread inside a call brings the call nearer to its return
TowardsReturn ==
    \A t \in Threads :
        (pc[t].at # "idle" /\ pc'[t] # pc[t]) => StepsLeft(pc'[t].at) < StepsLeft(pc[t].at)

\* C26: no call waits for one of the two Mutexes while it holds the other, so
\* concurrent calls never deadlock: a thread that waits for a Mutex waits for
\* a thread that waits for none, and every step of a call brings it nearer to
\* its return, so that every call completes.
C26_NoDeadlock ==
    /\ [](NoHoldAndWait /\ LocksFollowCalls /\ NoWaitingCycle)
    /\ [][TowardsReturn]_vars

\* one thread holds the Mutex of the ratio while the other holds the Mutex of
\* the tree
C26_Witness ==
    \E t, u \in Threads :
        /\ t # u
        /\ lock = Some(t)
        /\ viewport_lock = Some(u)
        /\ pc[u].at = "set_viewport"

\* the node with every dirty flag of its subtree cleared
RECURSIVE Undirtied(_)
Undirtied(node) ==
    [node EXCEPT !.needs_rebuild = FALSE,
                 !.children = [i \in 1..Len(node.children) |->
                                  <<node.children[i][1], Undirtied(node.children[i][2])>>]]

\* in the pass just made, the widget of the node at path returned
\* refresh_layout = true for an event it was sent
Refreshed(path) ==
    \E i \in 1..Len(last'.calls) :
        /\ last'.calls[i].path = path
        /\ handle_event(ws[NodeAt(main_node, path).state], last'.calls[i].event,
                        last'.calls[i].child_num).outcome.refresh_layout

\* what a set_cursor pass does to the tree
PassKeepsTree ==
    /\ Undirtied(main_node') = Undirtied(main_node)
    /\ \A p \in Paths(main_node) :
           NodeAt(main_node', p).needs_rebuild
               <=> (NodeAt(main_node, p).needs_rebuild \/ Refreshed(p))

\* C27: set_cursor changes no node's children, matrices, shapes or margins and
\* clears no dirty flag; it sets the flag of exactly the nodes whose widget
\* returned refresh_layout = true for an event of the pass. A flag that is set
\* stays set until the next draw() or rebuild(), and that draw() rebuilds.
C27_RefreshNotLost ==
    [][/\ last'.op = "set_cursor" => PassKeepsTree
       /\ (last'.op \in {"set_cursor", "is_hovering", "widget"} /\ AnyDirty(main_node))
              => AnyDirty(main_node')
       /\ (last'.op = "draw" /\ AnyDirty(main_node))
              => last'.builds = NodeCount(main_node') /\ ~AnyDirty(main_node')]_vars

\* after a pass a node is dirty whose widget asked for no refresh in that pass,
\* though it was sent events: its flag was set by an earlier pass
C27_Witness ==
    /\ last.op = "set_cursor"
    /\ \E p \in Paths(main_node) :
           /\ NodeAt(main_node, p).needs_rebuild
           /\ \E i \in 1..Len(last.calls) : last.calls[i].path = p
           /\ \A i \in 1..Len(last.calls) :
                  last.calls[i].path = p =>
                      ~handle_event(ws[NodeAt(main_node, p).state], last.calls[i].event,
                                    last.calls[i].child_num).outcome.refresh_layout

\* the positions of the tree held by an ImageButton that holds no other
ButtonPaths(node, widgets) ==
    {p \in Paths(node) :
        /\ widgets[NodeAt(node, p).state].kind = "ImageButton"
        /\ \A q \in Paths(node) : NodeAt(node, q).state = NodeAt(node, p).state => q = p}

\* the node of some such button is dirty
ButtonDirty(node, widgets) ==
    \E p \in ButtonPaths(node, widgets) : NodeAt(node, p).needs_rebuild

\* what a pass with this cursor leaves of the button at path p
ButtonAfterPass(p, cursor) ==
    /\ ws'[NodeAt(main_node, p).state].hovered
           = (cursor # None /\ CursorHits(main_node, p, cursor[1]))
    /\ NodeAt(main_node', p).needs_rebuild

\* C28: after every set_cursor pass an ImageButton's hovered flag says whether
\* the cursor hit its node's shape in that pass and its node is dirty; the flag
\* stays until a draw() or rebuild(), and the draw() rebuilds the whole tree.
C28_ButtonAlwaysRefreshes ==
    [][/\ last'.op = "set_cursor"
              => \A p \in ButtonPaths(main_node, ws) : ButtonAfterPass(p, last'.arg.cursor)
       /\ (last'.op \in {"is_hovering", "widget"} /\ ButtonDirty(main_node, ws))
              => ButtonDirty(main_node', ws')
       /\ (last'.op = "draw" /\ ButtonDirty(main_node, ws))
              => last'.builds = NodeCount(main_node') /\ last'.builds > 0]_vars

\* a pass has left the button's node dirty although the tree was resolved with
\* the hover state the button has after the pass
C28_Witness ==
    /\ last.op = "set_cursor"
    /\ \E p \in ButtonPaths(main_node, ws) :
           /\ NodeAt(main_node, p).needs_rebuild
           /\ ws[NodeAt(main_node, p).state].hovered
           /\ resolved.ws[NodeAt(main_node, p).state].hovered

\* p comes before q in pre-order: p is an ancestor of q, or p branches off to
\* an earlier child than q does
PreOrderBefore(p, q) ==
    \/ Len(p) < Len(q) /\ SubSeq(q, 1, Len(p)) = p
    \/ \E i \in 1..Len(p) :
           /\ i <= Len(q)
           /\ SubSeq(p, 1, i - 1) = SubSeq(q, 1, i - 1)
           /\ p[i] < q[i]

\* the widget the scan of a clean tree stops at
FirstStale(node, widgets) ==
    NodeAt(node, CHOOSE p \in StalePaths(node, widgets) :
                     \A q \in StalePaths(node, widgets) \ {p} : PreOrderBefore(p, q)).state

\* what one draw() does to the pending signals
DrawConsumesOne ==
    last'.op = "draw" =>
        /\ Cardinality(Pending(main_node, ws) \ Pending(main_node', ws')) <= 1
        /\ Pending(main_node', ws') \subseteq Pending(main_node, ws)
        /\ ~AnyDirty(main_node) =>
               IF Pending(main_node, ws) = {}
               THEN last'.builds = 0 /\ ws' = ws /\ main_node' = main_node
               ELSE /\ last'.builds = NodeCount(main_node')
                    /\ ws' = [ws EXCEPT ![FirstStale(main_node, ws)] =
                                  widget_needs_rebuild(@).w]
        /\ ~AnyDirty(main_node')

\* C29: the scan of draw() stops at the first positive finding in pre-order, so
\* a rebuilding draw() consumes the signal of one widget, the first stale one;
\* with k labels stale and nothing else changing at most k draw() calls in a row
\* rebuild, and repeated draw() calls eventually rebuild no more.
C29_DrawsSettle ==
    /\ [][DrawConsumesOne]_vars
    /\ <>[]Settled

\* a draw() that follows a draw() and still rebuilds, for the last label whose
\* signal was pending
C29_Witness ==
    /\ last.op = "draw"
    /\ last.builds > 0
    /\ last.arg.after_draw
    /\ Pending(main_node, ws) = {}
    /\ \A id \in {"b", "c", "d"} : id \in DOMAIN ws /\ ws[id].kind = "Label"
    /\ \A id \in {"b", "c", "d"} : ~resolved.ws[id].needs_refresh

\* every widget of the tree handles events as Widget::handle_event does by default
AllDefault(node, widgets) ==
    \A p \in Paths(node) :
        /\ widgets[NodeAt(node, p).state].kind # "ImageButton"
        /\ widgets[NodeAt(node, p).state].kind = "Custom"
               => widgets[NodeAt(node, p).state].handler = DefaultHandler

\* q is the node at p or lies in its subtree
InSubtree(q, p) == q = p \/ Below(q, p)

\* the handle_event calls of the last pass made on the node at p for this event
Received(p, event) ==
    Cardinality({i \in 1..Len(last.calls) :
                    last.calls[i].path = p /\ last.calls[i].event = event})

\* the events of this kind the nodes of the subtree of p originated in the last
\* pass
Originated(p, event) ==
    Cardinality({i \in 1..Len(last.calls) :
                    /\ InSubtree(last.calls[i].path, p)
                    /\ last.calls[i].child_num = None
                    /\ last.calls[i].event = event})

PassReachesAncestors ==
    /\ \A p \in Paths(main_node) : \A event \in Events :
           Received(p, event) = Originated(p, event)
    /\ Received(<<>>, "MouseEnterEvent") + Received(<<>>, "MouseLeaveEvent")
           = NodeCount(main_node)
    /\ ~AnyDirty(main_node)

\* C30: with default handlers everywhere, in a set_cursor pass every node's
\* widget is called once per hover or click event originated in the node's
\* subtree; the root is called for as many hover events as the tree has nodes,
\* no node is dirty afterwards and the draw() that follows does not rebuild.
C30_DefaultPropagation ==
    [][AllDefault(main_node, ws) =>
          /\ last'.op = "set_cursor" => PassReachesAncestors'
          /\ (last.op = "set_cursor" /\ last'.op = "draw" /\ ~AnyStale(main_node, ws))
                 => last'.builds = 0 /\ main_node' = main_node]_vars

\* a pass over a tree three levels deep in which a leaf was hit and clicked:
\* the root's widget is called for the click and for the hover event of every node
C30_Witness ==
    /\ last.op = "set_cursor"
    /\ AllDefault(main_node, ws)
    /\ \E p \in Paths(main_node) : Len(p) = 2 /\ Originated(p, "MouseClick") = 1
    /\ Received(<<>>, "MouseClick") >= 1
    /\ Received(<<>>, "MouseEnterEvent") >= 1
    /\ Received(<<>>, "MouseLeaveEvent") >= 1

====
